---- MODULE Spec2Model ----
(***************************************************************************)
(* School management system: class service (classes and enrollments),     *)
(* content service (versioned content items) and communication service    *)
(* (socket relay, private messages, announcements), with the frontend's   *)
(* sendPrivateMessage thunk.                                               *)
(*                                                                         *)
(* Every handler is an async function: it runs to its next await, and     *)
(* other handlers may run while it waits for the store.  A handler is     *)
(* therefore a sequence of actions, one per store operation, and the      *)
(* handler's local variables (the documents it loaded) live in its        *)
(* request record between the actions.  A record keeps req.user only as   *)
(* long as the handler still reads it (up to its last authorization       *)
(* check).                                                                 *)
(***************************************************************************)
EXTENDS Integers, FiniteSets, Sequences, TLC

(***************************************************************************)
(* Bounds of the model.                                                    *)
(***************************************************************************)
MaxReqs == 2
MaxClasses == 1
MaxCapacity == 2
MaxEnrollments == 2
MaxItems == 1
MaxEdits == 3
MaxConns == 2
MaxMessages == 2
MaxAnnouncements == 1
MaxUsers == 2
MaxTime == 2
MaxWindows == 2
MaxFeed == 2
MaxQueue == 2
MaxRev == 1
MaxNotices == 3
MaxList == 3

(***************************************************************************)
(* Users: the id and role a verified bearer token decodes to.              *)
(***************************************************************************)
Students == {"s1", "s2"}
Teachers == {"t1"}
Admins == {"a1"}
UserIds == Students \cup Teachers \cup Admins

Role(u) ==
  IF u \in Students THEN "student"
  ELSE IF u \in Teachers THEN "teacher"
  ELSE IF u \in Admins THEN "admin"
  ELSE "none"

VARIABLES
  classes,            \* class service: the Class collection
  enrollments,        \* class service: the Enrollment collection
  nextClassId,        \* class service: ids handed out so far + 1
  nextEnrollmentId,
  creq,               \* class service: the requests being handled
  enrolled,           \* class service: the enrollments whose POST was answered 201
  items,              \* content service: the ContentItem collection
  nextItemId,
  kreq,               \* content service: the requests being handled
  conns,              \* communication service: the sockets and their rooms
  messages,           \* communication service: the Message collection
  notifications,      \* communication service: the Notification collection
  announcements,      \* communication service: the Announcement collection
  nextMessageId,
  nextAnnouncementId,
  nextNotificationId,
  mreq,               \* communication service: the handlers being run
  emitted,            \* the events the last step put on the sockets
  send,               \* frontend: the sendPrivateMessage promise of each socket
  users,              \* user service: the User collection
  nextUserId,
  ureq,               \* user service: the requests being handled
  registered,         \* user service: the payloads POST /auth/register answered 201
  greq,               \* gateway: the frontend request on its way
  auth,               \* frontend store: the state of the auth slice
  authAction,         \* frontend store: the action the auth slice reduced last
  now,                \* communication service: the clock
  windowed,           \* communication service: announcements with their validity window
  listing,            \* communication service: the answer of the last GET /announcements
  stateAnnouncements, \* frontend store: state.announcements of the communication slice
  posted,             \* the announcements stored at the server, with their revision
  nextFeedId,
  responses,          \* HTTP responses on their way to the client's thunks
  socketQueue,        \* socket events on their way to the client's listeners
  stateNotifications, \* frontend store: state.notifications of the communication slice
  unreadNotificationsCount,
  noticeAction,       \* the type of the last notification action dispatched
  freshAdds           \* every addNotification so far brought an unread, new notification

classVars == <<classes, enrollments, nextClassId, nextEnrollmentId, creq, enrolled>>
contentVars == <<items, nextItemId, kreq>>

commVars == <<conns, messages, notifications, announcements, nextMessageId,
              nextAnnouncementId, nextNotificationId, mreq, emitted, send>>

userVars == <<users, nextUserId, ureq, registered>>

gatewayVars == <<greq>>
authVars == <<auth, authAction>>
feedVars == <<stateAnnouncements, posted, nextFeedId, responses, socketQueue>>
noticeVars == <<stateNotifications, unreadNotificationsCount, noticeAction, freshAdds>>
frontVars == <<gatewayVars, authVars, feedVars, noticeVars>>

windowVars == <<now, windowed, listing>>

vars == <<classVars, contentVars, commVars, userVars, frontVars, windowVars>>

(***************************************************************************)
(* Class service                                                           *)
(***************************************************************************)
ReqIds == 1..MaxReqs
ClassIds == 1..MaxClasses
EnrollmentIds == 1..MaxEnrollments

EnrollmentStatuses == {"active", "dropped", "completed"}

NoClass == [id |-> 0, teacherId |-> "none", capacity |-> 0, enrollmentCount |-> 0]
NoEnrollment == [id |-> 0, classId |-> 0, studentId |-> "none", status |-> "none"]

IdleReq ==
  [kind |-> "idle", pc |-> "done", user |-> "none", classId |-> 0,
   enrollmentId |-> 0, bodyStatus |-> "none", bodyCapacity |-> 0,
   classItem |-> NoClass, enrollment |-> NoEnrollment, prevStatus |-> "none",
   res |-> 0, msg |-> ""]

\* Class.findById / Enrollment.findById: the stored document or null.
ClassFound(cid) == \E c \in classes : c.id = cid
FindClass(cid) == IF ClassFound(cid) THEN CHOOSE c \in classes : c.id = cid ELSE NoClass
EnrollmentFound(eid) == \E e \in enrollments : e.id = eid
FindEnrollment(eid) ==
  IF EnrollmentFound(eid) THEN CHOOSE e \in enrollments : e.id = eid ELSE NoEnrollment

\* A slot can take a new request when the previous one has been answered.
Free(r) == creq[r].pc = "done"
\* Requests take the first free slot (the slots are interchangeable).
FirstFree(r) == Free(r) /\ \A q \in ReqIds : q < r => ~Free(q)
Quiescent == \A r \in ReqIds : Free(r)

\* The slots after slot r's handler has run one step and is now at record rec.
\* An answer stays in its slot for one step: once sent, the handler's record
\* is gone.
Step(r, rec) ==
  creq' = [q \in ReqIds |->
             IF q = r THEN rec
             ELSE IF creq[q].pc = "done" THEN IdleReq
             ELSE creq[q]]

\* res.status(code).json({ message })
Respond(r, req, code, message) ==
  Step(r, [req EXCEPT !.pc = "done", !.res = code, !.msg = message])

InitClass ==
  /\ classes = {}
  /\ enrollments = {}
  /\ nextClassId = 1
  /\ nextEnrollmentId = 1
  /\ creq = [r \in ReqIds |-> IdleReq]
  /\ enrolled = {}

\* A new request record for slot r.
NewReq(k, u) == [IdleReq EXCEPT !.kind = k, !.pc = "start", !.user = u]

(***************************************************************************)
(* POST /classes: one store write (newClass.save()).                       *)
(* bodyTeacher is the teacherId key of the body, "none" when absent.       *)
(* classSchema_joi has no teacherId key, and Joi rejects unknown keys; the *)
(* mongoose schema requires teacherId.                                     *)
(***************************************************************************)
JoiClassBodyOk(bodyTeacher, cap) == bodyTeacher = "none" /\ cap >= 1

NewClassTeacherId(u, bodyTeacher) == IF Role(u) = "teacher" THEN u ELSE bodyTeacher

CreateClass(r, u, bodyTeacher, cap) ==
  /\ FirstFree(r)
  /\ nextClassId <= MaxClasses
  /\ LET req == [NewReq("createClass", u) EXCEPT !.bodyCapacity = cap]
         tid == NewClassTeacherId(u, bodyTeacher)
     IN
     IF Role(u) # "teacher" /\ Role(u) # "admin"
     THEN /\ Respond(r, req, 403, "Access denied")
          /\ UNCHANGED <<classes, nextClassId>>
     ELSE IF ~JoiClassBodyOk(bodyTeacher, cap)
     THEN /\ Respond(r, req, 400, "validation")
          /\ UNCHANGED <<classes, nextClassId>>
     ELSE IF tid = "none"
     THEN /\ Respond(r, req, 500, "Server error")
          /\ UNCHANGED <<classes, nextClassId>>
     ELSE /\ classes' = classes \cup
               {[id |-> nextClassId, teacherId |-> tid, capacity |-> cap,
                 enrollmentCount |-> 0]}
          /\ nextClassId' = nextClassId + 1
          /\ Respond(r, [req EXCEPT !.classId = nextClassId], 201, "Class created successfully")
  /\ UNCHANGED <<enrollments, nextEnrollmentId, enrolled>>

(***************************************************************************)
(* PUT /classes/:id: findById, then save of the modified paths.            *)
(***************************************************************************)
\* Mutant of MayUpdateClass: every authenticated user may update.
MayUpdateClassAnyone(u, classItem) == TRUE

MayUpdateClass(u, classItem) == Role(u) = "admin" \/ classItem.teacherId = u

UpdateClassFind(r, u, cid, cap) ==
  /\ FirstFree(r)
  /\ LET req == [NewReq("updateClass", u) EXCEPT !.classId = cid, !.bodyCapacity = cap]
         classItem == FindClass(cid)
     IN
     IF ~ClassFound(cid)
     THEN Respond(r, req, 404, "Class not found")
     ELSE IF ~MayUpdateClass(u, classItem)
     THEN Respond(r, req, 403, "Access denied")
     ELSE Step(r, [req EXCEPT !.pc = "saveClass",
                             !.classItem = [classItem EXCEPT !.capacity = cap]])
  /\ UNCHANGED <<classes, enrollments, nextClassId, nextEnrollmentId, enrolled>>

\* classItem.save(): validation of the modified path (capacity: min 1), then
\* $set of the modified path on the stored document, which must still exist.
UpdateClassSave(r) ==
  /\ creq[r].kind = "updateClass" /\ creq[r].pc = "saveClass"
  /\ LET req == creq[r] IN
     IF req.classItem.capacity < 1 \/ ~ClassFound(req.classId)
     THEN /\ Respond(r, req, 500, "Server error")
          /\ UNCHANGED classes
     ELSE /\ classes' = {IF c.id = req.classId
                         THEN [c EXCEPT !.capacity = req.classItem.capacity]
                         ELSE c : c \in classes}
          /\ Respond(r, req, 200, "Class updated successfully")
  /\ UNCHANGED <<enrollments, nextClassId, nextEnrollmentId, enrolled>>

(***************************************************************************)
(* DELETE /classes/:id: findById, Enrollment.deleteMany, findByIdAndDelete.*)
(***************************************************************************)
DeleteClassFind(r, u, cid) ==
  /\ FirstFree(r)
  /\ LET req == [NewReq("deleteClass", u) EXCEPT !.classId = cid] IN
     IF Role(u) # "admin"
     THEN Respond(r, req, 403, "Access denied")
     ELSE IF ~ClassFound(cid)
     THEN Respond(r, req, 404, "Class not found")
     ELSE Step(r, [req EXCEPT !.pc = "deleteEnrollments"])
  /\ UNCHANGED <<classes, enrollments, nextClassId, nextEnrollmentId, enrolled>>

DeleteClassEnrollments(r) ==
  /\ creq[r].kind = "deleteClass" /\ creq[r].pc = "deleteEnrollments"
  /\ enrollments' = {e \in enrollments : e.classId # creq[r].classId}
  /\ Step(r, [creq[r] EXCEPT !.pc = "deleteClass"])
  /\ UNCHANGED <<classes, nextClassId, nextEnrollmentId, enrolled>>

DeleteClassDelete(r) ==
  /\ creq[r].kind = "deleteClass" /\ creq[r].pc = "deleteClass"
  /\ classes' = {c \in classes : c.id # creq[r].classId}
  /\ Respond(r, creq[r], 200, "Class and all related enrollments deleted successfully")
  /\ UNCHANGED <<enrollments, nextClassId, nextEnrollmentId, enrolled>>

(***************************************************************************)
(* POST /enrollments: Class.findById, Enrollment.findOne,                  *)
(* newEnrollment.save(), classItem.save().                                 *)
(***************************************************************************)
\* The enrollments this request may still create must fit the id space.
EnrollInFlight == Cardinality({q \in ReqIds : creq[q].kind = "enroll" /\ creq[q].pc # "done"})

\* Mutant of ClassIsFull: the comparison off by one.
ClassIsFullOffByOne(classItem) == classItem.enrollmentCount > classItem.capacity

ClassIsFull(classItem) == classItem.enrollmentCount >= classItem.capacity

EnrollFindClass(r, u, cid) ==
  /\ FirstFree(r)
  /\ nextEnrollmentId + EnrollInFlight <= MaxEnrollments
  /\ LET req == [NewReq("enroll", u) EXCEPT !.classId = cid]
         classItem == FindClass(cid)
     IN
     IF Role(u) # "student"
     THEN Respond(r, req, 403, "Access denied")
     ELSE IF ~ClassFound(cid)
     THEN Respond(r, req, 404, "Class not found")
     ELSE IF ClassIsFull(classItem)
     THEN Respond(r, [req EXCEPT !.classItem = classItem], 400, "Class is full")
     ELSE Step(r, [req EXCEPT !.pc = "findExisting", !.classItem = classItem])
  /\ UNCHANGED <<classes, enrollments, nextClassId, nextEnrollmentId, enrolled>>

\* Enrollment.findOne({ classId, studentId }): any status matches.
ExistingEnrollment(cid, sid) ==
  \E e \in enrollments : e.classId = cid /\ e.studentId = sid

EnrollFindExisting(r) ==
  /\ creq[r].kind = "enroll" /\ creq[r].pc = "findExisting"
  /\ IF ExistingEnrollment(creq[r].classId, creq[r].user)
     THEN Respond(r, creq[r], 400, "Student is already enrolled in this class")
     ELSE Step(r, [creq[r] EXCEPT !.pc = "saveEnrollment"])
  /\ UNCHANGED <<classes, enrollments, nextClassId, nextEnrollmentId, enrolled>>

EnrollSaveEnrollment(r) ==
  /\ creq[r].kind = "enroll" /\ creq[r].pc = "saveEnrollment"
  /\ LET newEnrollment == [id |-> nextEnrollmentId, classId |-> creq[r].classId,
                           studentId |-> creq[r].user, status |-> "active"]
     IN
     /\ enrollments' = enrollments \cup {newEnrollment}
     /\ Step(r, [creq[r] EXCEPT !.pc = "saveCount", !.enrollment = newEnrollment,
                                !.enrollmentId = nextEnrollmentId])
  /\ nextEnrollmentId' = nextEnrollmentId + 1
  /\ UNCHANGED <<classes, nextClassId, enrolled>>

\* classItem.enrollmentCount += 1; classItem.save(): the handler's copy of the
\* document is incremented and the new value is written ($set) to the store.
\* Mutant of CountAfterEnroll: an atomic increment of the stored value ($inc).
CountAfterEnrollAtomic(loaded, stored) == stored + 1

CountAfterEnroll(loaded, stored) == loaded + 1

\* The catch block after a rejected classItem.save(): it logs and answers
\* 500, the Enrollment collection is not touched.
\* Mutant of EnrollmentsAfterFailedCount: the new Enrollment is removed again.
EnrollmentsAfterFailedCountUndone(eid) == {e \in enrollments : e.id # eid}

EnrollmentsAfterFailedCount(eid) == enrollments

\* ok: the store accepts the write. A save of a document that is no longer
\* stored is rejected in any case.
EnrollSaveCount(r, ok) ==
  /\ creq[r].kind = "enroll" /\ creq[r].pc = "saveCount"
  /\ LET req == creq[r] IN
     IF ~ok \/ ~ClassFound(req.classId)
     THEN /\ Respond(r, req, 500, "Server error")
          /\ enrollments' = EnrollmentsAfterFailedCount(req.enrollmentId)
          /\ UNCHANGED <<classes, enrolled>>
     ELSE /\ classes' =
               {IF c.id = req.classId
                THEN [c EXCEPT !.enrollmentCount =
                        CountAfterEnroll(req.classItem.enrollmentCount, c.enrollmentCount)]
                ELSE c : c \in classes}
          /\ Respond(r, req, 201, "Enrolled successfully")
          /\ enrolled' = enrolled \cup {req.enrollmentId}
          /\ UNCHANGED enrollments
  /\ UNCHANGED <<nextClassId, nextEnrollmentId>>

(***************************************************************************)
(* PUT /enrollments/:id: Enrollment.findById, Class.findById, then         *)
(* (when the drop condition holds) classItem.save(), and enrollment.save().*)
(* The handler assigns enrollment.status = req.body.status before it ever  *)
(* reads the status the document was loaded with, so its copy of the       *)
(* document carries the assigned status from the start.                    *)
(***************************************************************************)
UpdateEnrollmentFind(r, u, eid, status) ==
  /\ FirstFree(r)
  /\ LET req == [NewReq("updateEnrollment", u) EXCEPT !.enrollmentId = eid,
                                                      !.bodyStatus = status]
     IN
     IF ~EnrollmentFound(eid)
     THEN Respond(r, req, 404, "Enrollment not found")
     ELSE Step(r, [req EXCEPT !.pc = "findClass",
                             !.enrollment = [FindEnrollment(eid) EXCEPT !.status = status],
                             !.classId = FindEnrollment(eid).classId])
  /\ UNCHANGED <<classes, enrollments, nextClassId, nextEnrollmentId, enrolled>>

\* Mutant of StudentMayWrite: a student may write any status.
StudentMayWriteAny(bodyStatus) == TRUE

\* req.body.status !== 'dropped' rejects the enrolled student's request.
StudentMayWrite(bodyStatus) == bodyStatus = "dropped"

UpdateEnrollmentFindClass(r) ==
  /\ creq[r].kind = "updateEnrollment" /\ creq[r].pc = "findClass"
  /\ LET req == creq[r]
         classItem == FindClass(req.classId)
         isStudent == req.user = req.enrollment.studentId
         isTeacher == req.user = classItem.teacherId
         isAdmin == Role(req.user) = "admin"
     IN
     IF ~ClassFound(req.classId)
     THEN Respond(r, req, 404, "Class not found")
     ELSE IF ~isStudent /\ ~isTeacher /\ ~isAdmin
     THEN Respond(r, req, 403, "Access denied")
     ELSE IF isStudent /\ ~StudentMayWrite(req.bodyStatus)
     THEN Respond(r, req, 403, "Students can only drop classes")
     ELSE Step(r, [req EXCEPT !.pc = "save", !.classItem = classItem])
  /\ UNCHANGED <<classes, enrollments, nextClassId, nextEnrollmentId, enrolled>>

\* The condition of the decrement. It is read after the assignment
\* enrollment.status = req.body.status: assignedStatus is enrollment.status at
\* that point.
\* Mutant of DropDecrements: every drop decrements, whatever the status.
DropDecrementsAlways(bodyStatus, assignedStatus) == bodyStatus = "dropped"

DropDecrements(bodyStatus, assignedStatus) ==
  bodyStatus = "dropped" /\ assignedStatus = "active"

\* The conditional counter write (classItem.enrollmentCount -= 1;
\* classItem.save()), then enrollment.save(), which validates status against
\* the schema's enum.
UpdateEnrollmentSave(r) ==
  /\ creq[r].kind = "updateEnrollment" /\ creq[r].pc = "save"
  /\ LET req == creq[r]
         enrollment == req.enrollment
         decrement == DropDecrements(req.bodyStatus, enrollment.status)
     IN
     /\ classes' =
          IF decrement
          THEN {IF c.id = req.classId
                THEN [c EXCEPT !.enrollmentCount = req.classItem.enrollmentCount - 1]
                ELSE c : c \in classes}
          ELSE classes
     /\ IF decrement /\ ~ClassFound(req.classId)
        THEN /\ Respond(r, req, 500, "Server error")
             /\ UNCHANGED enrollments
        ELSE IF enrollment.status \notin EnrollmentStatuses \/ ~EnrollmentFound(req.enrollmentId)
        THEN /\ Respond(r, req, 500, "Server error")
             /\ UNCHANGED enrollments
        ELSE /\ enrollments' = {IF e.id = req.enrollmentId
                                THEN [e EXCEPT !.status = enrollment.status]
                                ELSE e : e \in enrollments}
             /\ Respond(r, [req EXCEPT !.prevStatus = FindEnrollment(req.enrollmentId).status],
                        200, "Enrollment updated successfully")
  /\ UNCHANGED <<nextClassId, nextEnrollmentId, enrolled>>

(***************************************************************************)
(* Content service: ContentItem documents.                                 *)
(* A content value is a string; Undefined stands for an absent field or    *)
(* body key.                                                               *)
(***************************************************************************)
Undefined == "undefined"
Contents == {"", "a", "b"}
ItemTypes == {"document", "video"}
ItemIds == 1..MaxItems

NoItem == [id |-> 0, type |-> Undefined, content |-> Undefined, authorId |-> "none",
           version |-> 0, previousVersions |-> <<>>]

IdleItemReq ==
  [kind |-> "idle", pc |-> "done", user |-> "none", itemId |-> 0,
   bodyType |-> Undefined, bodyContent |-> Undefined, contentItem |-> NoItem,
   pushed |-> <<>>, modified |-> {}, res |-> 0]

ItemFound(id) == \E it \in items : it.id = id
FindItem(id) == IF ItemFound(id) THEN CHOOSE it \in items : it.id = id ELSE NoItem

ItemFree(r) == kreq[r].pc = "done"
ItemFirstFree(r) == ItemFree(r) /\ \A q \in ReqIds : q < r => ~ItemFree(q)
ItemQuiescent == \A r \in ReqIds : ItemFree(r)

ItemStep(r, rec) ==
  kreq' = [q \in ReqIds |->
             IF q = r THEN rec
             ELSE IF kreq[q].pc = "done" THEN IdleItemReq
             ELSE kreq[q]]

ItemRespond(r, req, code) == ItemStep(r, [req EXCEPT !.pc = "done", !.res = code])

InitContent ==
  /\ items = {}
  /\ nextItemId = 1
  /\ kreq = [r \in ReqIds |-> IdleItemReq]

\* contentItemSchema_joi: type is required and one of the enum; content is a
\* Joi.string() (which does not admit the empty string), required for a
\* document or a link.
JoiItemBodyOk(type, content) ==
  /\ type \in ItemTypes
  /\ content # ""
  /\ (type = "document" => content # Undefined)

\* The mongoose schema's validators: type is of the enum, and content is
\* required (a string that is not empty) for a document or a link.
ItemValid(type, content) ==
  /\ type \in ItemTypes
  /\ (type = "document" => content \notin {Undefined, ""})

\* POST /content-items: one store write.
CreateItem(r, u, type, content) ==
  /\ ItemFirstFree(r)
  /\ nextItemId <= MaxItems
  /\ LET req == [IdleItemReq EXCEPT !.kind = "createItem", !.user = u,
                                    !.bodyType = type, !.bodyContent = content]
     IN
     IF Role(u) # "teacher" /\ Role(u) # "admin"
     THEN /\ ItemRespond(r, req, 403)
          /\ UNCHANGED <<items, nextItemId>>
     ELSE IF ~JoiItemBodyOk(type, content)
     THEN /\ ItemRespond(r, req, 400)
          /\ UNCHANGED <<items, nextItemId>>
     ELSE IF ~ItemValid(type, content)
     THEN /\ ItemRespond(r, req, 500)
          /\ UNCHANGED <<items, nextItemId>>
     ELSE /\ items' = items \cup
               {[id |-> nextItemId, type |-> type, content |-> content, authorId |-> u,
                 version |-> 1, previousVersions |-> <<>>]}
          /\ nextItemId' = nextItemId + 1
          /\ ItemRespond(r, [req EXCEPT !.itemId = nextItemId], 201)

\* The edits this request may still append must fit the history bound.
EditsInFlight(id) ==
  Cardinality({q \in ReqIds : kreq[q].kind = "updateItem" /\ kreq[q].pc # "done"
                              /\ kreq[q].itemId = id})

\* if (req.body.content && req.body.content !== contentItem.content): an
\* absent key and the empty string are falsy.
StoresPreviousVersion(bodyContent, content) ==
  bodyContent \notin {Undefined, ""} /\ bodyContent # content

\* contentItem[field] = req.body[field] when req.body[field] !== undefined
Assigned(bodyValue, value) == IF bodyValue # Undefined THEN bodyValue ELSE value

\* PUT /content-items/:id up to contentItem.save(): findById, the checks, the
\* push onto previousVersions with the version increment, the field updates.
UpdateItemFind(r, u, id, type, content) ==
  /\ ItemFirstFree(r)
  /\ Len(FindItem(id).previousVersions) + EditsInFlight(id) < MaxEdits
  /\ LET req == [IdleItemReq EXCEPT !.kind = "updateItem", !.user = u, !.itemId = id,
                                    !.bodyType = type, !.bodyContent = content]
         contentItem == FindItem(id)
         stores == StoresPreviousVersion(content, contentItem.content)
     IN
     IF ~ItemFound(id)
     THEN ItemRespond(r, req, 404)
     ELSE IF Role(u) # "admin" /\ contentItem.authorId # u
     THEN ItemRespond(r, req, 403)
     ELSE ItemStep(r, [req EXCEPT
            !.pc = "saveItem", !.user = "none",
            !.pushed = IF stores THEN <<contentItem.content>> ELSE <<>>,
            !.modified =
               (IF stores THEN {"version"} ELSE {})
                 \cup (IF Assigned(type, contentItem.type) # contentItem.type
                       THEN {"type"} ELSE {})
                 \cup (IF Assigned(content, contentItem.content) # contentItem.content
                       THEN {"content"} ELSE {}),
            !.contentItem =
               [contentItem EXCEPT
                  !.version = IF stores THEN contentItem.version + 1 ELSE contentItem.version,
                  !.type = Assigned(type, contentItem.type),
                  !.content = Assigned(content, contentItem.content)]])
  /\ UNCHANGED <<items, nextItemId>>

\* contentItem.save(): validation of the handler's document, then one update
\* of the stored document: $set of those of type, content and version that
\* the handler has changed, $push of the entries it pushed.
UpdateItemSave(r) ==
  /\ kreq[r].kind = "updateItem" /\ kreq[r].pc = "saveItem"
  /\ LET req == kreq[r]
         contentItem == req.contentItem
     IN
     IF ~ItemValid(contentItem.type, contentItem.content) \/ ~ItemFound(req.itemId)
     THEN /\ ItemRespond(r, req, 500)
          /\ UNCHANGED items
     ELSE /\ items' = {IF it.id = req.itemId
                       THEN [it EXCEPT
                               !.type = IF "type" \in req.modified
                                        THEN contentItem.type ELSE @,
                               !.content = IF "content" \in req.modified
                                           THEN contentItem.content ELSE @,
                               !.version = IF "version" \in req.modified
                                           THEN contentItem.version ELSE @,
                               !.previousVersions = it.previousVersions \o req.pushed]
                       ELSE it : it \in items}
          /\ ItemRespond(r, req, 200)
  /\ UNCHANGED nextItemId

ContentArrive ==
  \E r \in ReqIds, u \in UserIds :
    \E type \in ItemTypes \cup {Undefined}, content \in Contents \cup {Undefined} :
      \/ CreateItem(r, u, type, content)
      \/ \E id \in ItemIds : UpdateItemFind(r, u, id, type, content)

ContentResume == \E r \in ReqIds : UpdateItemSave(r)

\* The content service, one request at a time.
NextContentSeq ==
  /\ (ItemQuiescent /\ ContentArrive) \/ ContentResume
  /\ UNCHANGED <<classVars, commVars, userVars, frontVars, windowVars>>

\* A teacher's creates and edits of documents, handlers interleaved at their
\* store operations.
ContentEditArrive ==
  \E r \in ReqIds, u \in Teachers, content \in {"a", "b"} :
    \/ CreateItem(r, u, "document", content)
    \/ \E id \in ItemIds, type \in {"document", Undefined} :
         UpdateItemFind(r, u, id, type, content)

NextContentEdit ==
  /\ ContentEditArrive \/ ContentResume
  /\ UNCHANGED <<classVars, commVars, userVars, frontVars, windowVars>>

\* The content service, handlers interleaved at their store operations.
NextContent ==
  /\ ContentArrive \/ ContentResume
  /\ UNCHANGED <<classVars, commVars, userVars, frontVars, windowVars>>

(***************************************************************************)
(* Communication service: socket.io connections with their rooms, private  *)
(* messages (socket event and POST /messages), announcements.              *)
(* A room is <<"user", id>> or <<"role", role>>.  An absent classId is 0.  *)
(***************************************************************************)
ConnIds == 1..MaxConns

\* The users whose tokens the sockets and the message requests present, and
\* the users messages are addressed to.
SocketUsers == {"s1", "t1"}
AnnouncementIds == 1..MaxAnnouncements
Recipients == {"s1"}
AudienceTypes == {"all", "class", "role"}
AudienceRoles == {"student", "teacher", "admin"}

UserRoom(u) == <<"user", u>>
RoleRoom(role) == <<"role", role>>

\* A socket that is not connected: it has no userId and is in no room.
NoConn == [open |-> FALSE, userId |-> Undefined, rooms |-> {}]

NoAnnouncement == [id |-> 0, authorId |-> "none", type |-> Undefined, role |-> Undefined,
                   classId |-> 0]

\* The promise sendPrivateMessage returns: its state, the messageId of the
\* acknowledgement it was resolved with, and the messageId of the
\* 'message-sent' event the socket has received since the send (0: none).
IdleSend == [state |-> "idle", messageId |-> 0, messageSent |-> 0]

IdleMsgReq ==
  [kind |-> "idle", pc |-> "done", conn |-> 0, senderId |-> "none",
   recipientId |-> Undefined, messageId |-> 0, announcementId |-> 0,
   notificationId |-> 0, body |-> {}, announcement |-> NoAnnouncement,
   modified |-> FALSE, res |-> 0]

OpenConns == {c \in ConnIds : conns[c].open}
\* The sockets io.to(room) reaches.
RoomMembers(room) == {c \in ConnIds : conns[c].open /\ room \in conns[c].rooms}

\* An event emitted to each of the sockets of `to`.
Emits(to, event, id) == {[conn |-> c, event |-> event, id |-> id] : c \in to}
\* socket.emit: the event reaches the socket if it is still connected.
SocketEmitsToAll(c, event, id) == Emits(OpenConns, event, id)
SocketEmits(c, event, id) == Emits({c} \cap OpenConns, event, id)

MsgFree(r) == mreq[r].pc = "done"
MsgFirstFree(r) == MsgFree(r) /\ \A q \in ReqIds : q < r => ~MsgFree(q)
MsgQuiescent == \A r \in ReqIds : MsgFree(r)
HandlersOf(c) == {q \in ReqIds : mreq[q].pc # "done" /\ mreq[q].conn = c}

\* The handlers that have answered are gone after the next step.
Settled == [q \in ReqIds |-> IF mreq[q].pc = "done" THEN IdleMsgReq ELSE mreq[q]]
MsgStep(r, rec) == mreq' = [Settled EXCEPT ![r] = rec]
MsgRespond(r, req, code) == MsgStep(r, [req EXCEPT !.pc = "done", !.res = code])

AnnouncementFound(id) == \E a \in announcements : a.id = id
FindAnnouncement(id) ==
  IF AnnouncementFound(id) THEN CHOOSE a \in announcements : a.id = id ELSE NoAnnouncement

InitComm ==
  /\ conns = [c \in ConnIds |-> NoConn]
  /\ messages = {}
  /\ notifications = {}
  /\ announcements = {}
  /\ nextMessageId = 1
  /\ nextAnnouncementId = 1
  /\ nextNotificationId = 1
  /\ mreq = [r \in ReqIds |-> IdleMsgReq]
  /\ emitted = {}
  /\ send = [c \in ConnIds |-> IdleSend]

storeVars == <<messages, notifications, announcements, nextMessageId, nextAnnouncementId,
               nextNotificationId>>

\* io.on('connection'): a new socket.  The frontend makes one (initializeSocket)
\* with no send outstanding; a slot is taken again once the handlers of its
\* previous socket have finished.
Connect(c) ==
  /\ ~conns[c].open
  /\ HandlersOf(c) = {}
  /\ send[c].state # "pending"
  /\ conns' = [conns EXCEPT ![c] = [NoConn EXCEPT !.open = TRUE]]
  /\ send' = [send EXCEPT ![c] = IdleSend]
  /\ emitted' = {}
  /\ mreq' = Settled
  /\ UNCHANGED storeVars

\* socket 'disconnect': the socket leaves its rooms.
Disconnect(c) ==
  /\ conns[c].open
  /\ conns' = [conns EXCEPT ![c] = NoConn]
  /\ emitted' = {}
  /\ mreq' = Settled
  /\ UNCHANGED <<storeVars, send>>

\* socket.on('authenticate'): a token that verifies decodes to the user u; a
\* failed verification leaves the socket as it was.  The payload id 1 is
\* success, 0 failure.
Authenticate(c, token) ==
  /\ conns[c].open
  /\ IF token \in SocketUsers
     THEN /\ conns' = [conns EXCEPT ![c].userId = token,
                                    ![c].rooms = @ \cup {UserRoom(token), RoleRoom(Role(token))}]
          /\ emitted' = SocketEmits(c, "authenticated", 1)
     ELSE /\ conns' = conns
          /\ emitted' = SocketEmits(c, "authenticated", 0)
  /\ mreq' = Settled
  /\ UNCHANGED <<storeVars, send>>

\* io.to(`user:${recipientId}`).emit('new-message', ...)
NewMessageRecipientsAll(recipientId) == OpenConns
NewMessageRecipients(recipientId) == RoomMembers(UserRoom(recipientId))

\* socket.on('private-message', async (data) => ...): the listener takes the
\* payload only; the acknowledgement function the client sent along with the
\* event is never called.
AckCalled == FALSE

\* The frontend when the handler has finished for message mid: it has no
\* listener for 'message-sent'; the callback it passed to socket.emit settles
\* the promise when the server calls it.
ClientOnReply(s, mid) ==
  IF AckCalled /\ s.state = "pending"
  THEN [s EXCEPT !.state = "fulfilled", !.messageId = mid, !.messageSent = mid]
  ELSE [s EXCEPT !.messageSent = mid]

\* new Message({...}).save(): the schema requires recipientId; ok is whether
\* the store accepts the write.
MessageSaved(recipientId, ok) == recipientId # Undefined /\ ok

\* The frontend's sendPrivateMessage on socket c together with the server's
\* 'private-message' listener up to newMessage.save().
SendPrivateMessage(c, r, recipientId, ok) ==
  /\ MsgFirstFree(r)
  /\ send[c].state # "pending"
  /\ nextMessageId <= MaxMessages
  /\ LET req == [IdleMsgReq EXCEPT !.kind = "privateMessage", !.conn = c,
                                   !.senderId = conns[c].userId,
                                   !.recipientId = recipientId]
     IN
     IF ~conns[c].open
     THEN /\ send' = [send EXCEPT ![c] = [IdleSend EXCEPT !.state = "rejected"]]
          /\ emitted' = {}
          /\ mreq' = Settled
          /\ UNCHANGED <<messages, nextMessageId>>
     ELSE /\ send' = [send EXCEPT ![c] = [IdleSend EXCEPT !.state = "pending"]]
          /\ IF conns[c].userId = Undefined \/ ~MessageSaved(recipientId, ok)
             THEN /\ emitted' = SocketEmits(c, "error", 0)
                  /\ MsgRespond(r, req, 0)
                  /\ UNCHANGED <<messages, nextMessageId>>
             ELSE /\ messages' = messages \cup
                       {[id |-> nextMessageId, senderId |-> conns[c].userId,
                         recipientId |-> recipientId]}
                  /\ nextMessageId' = nextMessageId + 1
                  /\ emitted' = {}
                  /\ MsgStep(r, [req EXCEPT !.pc = "saveNotification",
                                            !.messageId = nextMessageId])
  /\ UNCHANGED <<conns, notifications, announcements, nextAnnouncementId, nextNotificationId>>

\* POST /messages up to newMessage.save(); messageSchema_joi requires
\* recipientId.
PostMessage(r, u, recipientId, ok) ==
  /\ MsgFirstFree(r)
  /\ nextMessageId <= MaxMessages
  /\ LET req == [IdleMsgReq EXCEPT !.kind = "postMessage", !.senderId = u,
                                   !.recipientId = recipientId]
     IN
     IF recipientId = Undefined
     THEN /\ MsgRespond(r, req, 400)
          /\ UNCHANGED <<messages, nextMessageId>>
     ELSE IF ~MessageSaved(recipientId, ok)
     THEN /\ MsgRespond(r, req, 500)
          /\ UNCHANGED <<messages, nextMessageId>>
     ELSE /\ messages' = messages \cup
               {[id |-> nextMessageId, senderId |-> u, recipientId |-> recipientId]}
          /\ nextMessageId' = nextMessageId + 1
          /\ MsgStep(r, [req EXCEPT !.pc = "saveNotification", !.messageId = nextMessageId])
  /\ emitted' = {}
  /\ UNCHANGED <<conns, notifications, announcements, nextAnnouncementId,
                 nextNotificationId, send>>

\* new Notification({ userId, ..., relatedTo: { type, id } }): read defaults
\* to false.
NewNotificationRead(id, userId, relatedType, relatedId) ==
  [id |-> id, userId |-> userId, relatedType |-> relatedType, relatedId |-> relatedId,
   read |-> TRUE]
NewNotification(id, userId, relatedType, relatedId) ==
  [id |-> id, userId |-> userId, relatedType |-> relatedType, relatedId |-> relatedId,
   read |-> FALSE]

\* notification.save() of either message handler; a rejected write ends the
\* handler in its catch block.
SaveNotification(r, ok) ==
  /\ mreq[r].pc = "saveNotification"
  /\ LET req == mreq[r] IN
     IF ok
     THEN /\ notifications' = notifications \cup
               {NewNotification(nextNotificationId, req.recipientId, "message",
                                req.messageId)}
          /\ nextNotificationId' = nextNotificationId + 1
          /\ emitted' = {}
          /\ MsgStep(r, [req EXCEPT !.pc = "emitMessage",
                                    !.notificationId = nextNotificationId])
     ELSE /\ UNCHANGED <<notifications, nextNotificationId>>
          /\ emitted' = IF req.kind = "privateMessage"
                        THEN SocketEmits(req.conn, "error", 0) ELSE {}
          /\ MsgRespond(r, req, IF req.kind = "privateMessage" THEN 0 ELSE 500)
  /\ UNCHANGED <<conns, messages, announcements, nextMessageId, nextAnnouncementId, send>>

\* The rest of either message handler: 'new-message' to the recipient's room,
\* then 'message-sent' to the sending socket or the 201 answer.
EmitMessage(r) ==
  /\ mreq[r].pc = "emitMessage"
  /\ LET req == mreq[r]
         newMessage == Emits(NewMessageRecipients(req.recipientId), "new-message",
                             req.messageId)
     IN
     IF req.kind = "privateMessage"
     THEN /\ emitted' = newMessage \cup SocketEmits(req.conn, "message-sent", req.messageId)
          /\ send' = IF conns[req.conn].open
                     THEN [send EXCEPT ![req.conn] = ClientOnReply(@, req.messageId)]
                     ELSE send
          /\ MsgRespond(r, req, 0)
     ELSE /\ emitted' = newMessage
          /\ send' = send
          /\ MsgRespond(r, req, 201)
  /\ UNCHANGED <<conns, storeVars>>

\* setTimeout(() => reject(new Error('Socket response timeout')), 5000)
Timeout(c) ==
  /\ send[c].state = "pending"
  /\ send' = [send EXCEPT ![c].state = "rejected"]
  /\ emitted' = {}
  /\ mreq' = Settled
  /\ UNCHANGED <<conns, storeVars>>

(***************************************************************************)
(* Communication service: the notification routes.                         *)
(***************************************************************************)
NotificationIds == 1..MaxMessages

NoNotification == NewNotification(0, "none", "none", 0)
NotificationFound(id) == \E n \in notifications : n.id = id
FindNotification(id) ==
  IF NotificationFound(id) THEN CHOOSE n \in notifications : n.id = id ELSE NoNotification

\* Notification.find({ userId: req.user.id })
NotificationsOf(u) == {n \in notifications : n.userId = u}

notifFrame == <<conns, messages, announcements, nextMessageId, nextAnnouncementId,
                nextNotificationId, send>>

\* GET /notifications: the answer is the list the store returned.
GetNotifications(r, u) ==
  /\ MsgFirstFree(r)
  /\ MsgRespond(r, [IdleMsgReq EXCEPT !.kind = "getNotifications", !.senderId = u,
                                      !.body = NotificationsOf(u)], 200)
  /\ emitted' = {}
  /\ UNCHANGED <<notifications, notifFrame>>

\* PUT /notifications/:id/read up to notification.save().
MarkReadFind(r, u, id) ==
  /\ MsgFirstFree(r)
  /\ LET req == [IdleMsgReq EXCEPT !.kind = "markRead", !.senderId = u,
                                   !.notificationId = id]
     IN
     IF ~NotificationFound(id) THEN MsgRespond(r, req, 404)
     ELSE IF FindNotification(id).userId # u THEN MsgRespond(r, req, 403)
     ELSE MsgStep(r, [req EXCEPT !.pc = "saveRead"])
  /\ emitted' = {}
  /\ UNCHANGED <<notifications, notifFrame>>

\* notification.save() with read = true; the save of a document that is no
\* longer stored is rejected.
MarkReadSave(r) ==
  /\ mreq[r].pc = "saveRead"
  /\ IF NotificationFound(mreq[r].notificationId)
     THEN /\ notifications' = {IF n.id = mreq[r].notificationId
                               THEN [n EXCEPT !.read = TRUE] ELSE n : n \in notifications}
          /\ MsgRespond(r, mreq[r], 200)
     ELSE /\ notifications' = notifications
          /\ MsgRespond(r, mreq[r], 500)
  /\ emitted' = {}
  /\ UNCHANGED notifFrame

\* PUT /notifications/read-all: Notification.updateMany.
ReadAll(r, u) ==
  /\ MsgFirstFree(r)
  /\ notifications' = {IF n.userId = u THEN [n EXCEPT !.read = TRUE] ELSE n
                         : n \in notifications}
  /\ MsgRespond(r, [IdleMsgReq EXCEPT !.kind = "readAll", !.senderId = u], 200)
  /\ emitted' = {}
  /\ UNCHANGED notifFrame

\* DELETE /notifications/:id up to Notification.findByIdAndDelete.
DeleteNotificationFind(r, u, id) ==
  /\ MsgFirstFree(r)
  /\ LET req == [IdleMsgReq EXCEPT !.kind = "deleteNotification", !.senderId = u,
                                   !.notificationId = id]
     IN
     IF ~NotificationFound(id) THEN MsgRespond(r, req, 404)
     ELSE IF FindNotification(id).userId # u THEN MsgRespond(r, req, 403)
     ELSE MsgStep(r, [req EXCEPT !.pc = "deleteNotification"])
  /\ emitted' = {}
  /\ UNCHANGED <<notifications, notifFrame>>

\* Notification.findByIdAndDelete
DeleteNotificationDelete(r) ==
  /\ mreq[r].pc = "deleteNotification"
  /\ notifications' = {n \in notifications : n.id # mreq[r].notificationId}
  /\ MsgRespond(r, mreq[r], 200)
  /\ emitted' = {}
  /\ UNCHANGED notifFrame

NotificationArrive ==
  \E r \in ReqIds, u \in SocketUsers :
    \/ GetNotifications(r, u)
    \/ ReadAll(r, u)
    \/ \E id \in NotificationIds : MarkReadFind(r, u, id)
    \/ \E id \in NotificationIds : DeleteNotificationFind(r, u, id)

NotificationResume ==
  \E r \in ReqIds : MarkReadSave(r) \/ DeleteNotificationDelete(r)

\* announcementSchema_joi on targetAudience.
JoiAnnouncementOk(type, role, classId) ==
  /\ type \in AudienceTypes
  /\ role \in AudienceRoles \cup {Undefined}
  /\ (type = "class" => classId # 0)
  /\ (type = "role" => role # Undefined)

\* POST /announcements up to newAnnouncement.save().
CreateAnnouncement(r, u, type, role, classId, ok) ==
  /\ MsgFirstFree(r)
  /\ nextAnnouncementId <= MaxAnnouncements
  /\ LET req == [IdleMsgReq EXCEPT !.kind = "announcement", !.senderId = u] IN
     IF Role(u) # "teacher" /\ Role(u) # "admin"
     THEN /\ MsgRespond(r, req, 403)
          /\ UNCHANGED <<announcements, nextAnnouncementId>>
     ELSE IF ~JoiAnnouncementOk(type, role, classId)
     THEN /\ MsgRespond(r, req, 400)
          /\ UNCHANGED <<announcements, nextAnnouncementId>>
     ELSE IF ~ok
     THEN /\ MsgRespond(r, req, 500)
          /\ UNCHANGED <<announcements, nextAnnouncementId>>
     ELSE /\ announcements' = announcements \cup
               {[id |-> nextAnnouncementId, authorId |-> u, type |-> type,
                 role |-> role, classId |-> classId]}
          /\ nextAnnouncementId' = nextAnnouncementId + 1
          /\ MsgStep(r, [req EXCEPT !.pc = "emitAnnouncement",
                                    !.announcementId = nextAnnouncementId])
  /\ emitted' = {}
  /\ UNCHANGED <<conns, messages, notifications, nextMessageId, nextNotificationId, send>>

\* The sockets a new announcement is emitted to: io.emit for 'all', the role
\* room for 'role', io.emit again for 'class'.
AnnouncementRecipientsAlwaysAll(a) == OpenConns
AnnouncementRecipients(a) ==
  IF a.type = "all" THEN OpenConns
  ELSE IF a.type = "role" THEN RoomMembers(RoleRoom(a.role))
  ELSE IF a.type = "class" THEN OpenConns
  ELSE {}

\* The rest of POST /announcements: the emit and the 201 answer.
EmitAnnouncement(r) ==
  /\ mreq[r].pc = "emitAnnouncement"
  /\ emitted' = Emits(AnnouncementRecipients(FindAnnouncement(mreq[r].announcementId)),
                      "new-announcement", mreq[r].announcementId)
  /\ MsgRespond(r, mreq[r], 201)
  /\ UNCHANGED <<conns, storeVars, send>>

\* The announcement schema's validators on targetAudience: type is required
\* and of its enum, role of its enum when present.
AnnouncementValid(a) ==
  a.type \in AudienceTypes /\ a.role \in AudienceRoles \cup {Undefined}

\* Only the author of the announcement or an admin may update or delete it.
MayChangeAnnouncement(u, a) == Role(u) = "admin" \/ a.authorId = u

\* PUT /announcements/:id up to announcement.save(): findById, the checks, the
\* field updates.  has is whether the body has the key targetAudience, which
\* then replaces the stored one.
UpdateAnnouncementFind(r, u, id, has, type, role, classId) ==
  /\ MsgFirstFree(r)
  /\ LET req == [IdleMsgReq EXCEPT !.kind = "updateAnnouncement", !.senderId = u,
                                   !.announcementId = id]
         announcement == FindAnnouncement(id)
     IN
     IF ~AnnouncementFound(id) THEN MsgRespond(r, req, 404)
     ELSE IF ~MayChangeAnnouncement(u, announcement) THEN MsgRespond(r, req, 403)
     ELSE MsgStep(r, [req EXCEPT
            !.pc = "saveAnnouncement",
            !.announcement = IF has
                             THEN [announcement EXCEPT !.type = type, !.role = role,
                                                       !.classId = classId]
                             ELSE announcement,
            !.modified = has])
  /\ emitted' = {}
  /\ UNCHANGED <<conns, storeVars, send>>

\* announcement.save(): validation, then one update that sets the modified
\* paths of the stored document; the save of a document that is no longer
\* stored is rejected.
UpdateAnnouncementSave(r) ==
  /\ mreq[r].pc = "saveAnnouncement"
  /\ LET req == mreq[r] IN
     IF ~AnnouncementValid(req.announcement) \/ ~AnnouncementFound(req.announcementId)
     THEN /\ announcements' = announcements
          /\ MsgRespond(r, req, 500)
     ELSE /\ announcements' =
               {IF a.id = req.announcementId /\ req.modified
                THEN [a EXCEPT !.type = req.announcement.type,
                               !.role = req.announcement.role,
                               !.classId = req.announcement.classId]
                ELSE a : a \in announcements}
          /\ MsgStep(r, [req EXCEPT !.pc = "emitUpdated"])
  /\ emitted' = {}
  /\ UNCHANGED <<conns, messages, notifications, nextMessageId, nextAnnouncementId,
                 nextNotificationId, send>>

\* The rest of PUT /announcements/:id: 'announcement-updated' by the audience
\* of the handler's document, and the answer.
UpdateAnnouncementEmit(r) ==
  /\ mreq[r].pc = "emitUpdated"
  /\ emitted' = Emits(AnnouncementRecipients(mreq[r].announcement),
                      "announcement-updated", mreq[r].announcementId)
  /\ MsgRespond(r, mreq[r], 200)
  /\ UNCHANGED <<conns, storeVars, send>>

\* DELETE /announcements/:id up to Announcement.findByIdAndDelete.
DeleteAnnouncementFind(r, u, id) ==
  /\ MsgFirstFree(r)
  /\ LET req == [IdleMsgReq EXCEPT !.kind = "deleteAnnouncement", !.senderId = u,
                                   !.announcementId = id]
         announcement == FindAnnouncement(id)
     IN
     IF ~AnnouncementFound(id) THEN MsgRespond(r, req, 404)
     ELSE IF ~MayChangeAnnouncement(u, announcement) THEN MsgRespond(r, req, 403)
     ELSE MsgStep(r, [req EXCEPT !.pc = "deleteAnnouncement",
                                 !.announcement = announcement])
  /\ emitted' = {}
  /\ UNCHANGED <<conns, storeVars, send>>

\* Announcement.findByIdAndDelete
DeleteAnnouncementDelete(r) ==
  /\ mreq[r].pc = "deleteAnnouncement"
  /\ announcements' = {a \in announcements : a.id # mreq[r].announcementId}
  /\ MsgStep(r, [mreq[r] EXCEPT !.pc = "emitDeleted"])
  /\ emitted' = {}
  /\ UNCHANGED <<conns, messages, notifications, nextMessageId, nextAnnouncementId,
                 nextNotificationId, send>>

\* The rest of DELETE /announcements/:id: 'announcement-deleted' by the
\* audience of the document the handler loaded, and the answer.
DeleteAnnouncementEmit(r) ==
  /\ mreq[r].pc = "emitDeleted"
  /\ emitted' = Emits(AnnouncementRecipients(mreq[r].announcement),
                      "announcement-deleted", mreq[r].announcementId)
  /\ MsgRespond(r, mreq[r], 200)
  /\ UNCHANGED <<conns, storeVars, send>>

ConnStep ==
  \E c \in ConnIds :
    \/ Connect(c)
    \/ Disconnect(c)
    \/ \E token \in SocketUsers \cup {"invalid"} : Authenticate(c, token)

MessageArrive ==
  \E r \in ReqIds, recipientId \in Recipients \cup {Undefined}, ok \in BOOLEAN :
    \/ \E c \in ConnIds : SendPrivateMessage(c, r, recipientId, ok)
    \/ \E u \in SocketUsers : PostMessage(r, u, recipientId, ok)

MessageResume ==
  \/ \E r \in ReqIds, ok \in BOOLEAN : SaveNotification(r, ok)
  \/ \E r \in ReqIds : EmitMessage(r)
  \/ \E c \in ConnIds : Timeout(c)

AnnouncementArrive ==
  \E r \in ReqIds, u \in UserIds, type \in AudienceTypes \cup {"bogus"},
     role \in {Undefined, "student", "teacher"}, classId \in {0} \cup ClassIds,
     ok \in BOOLEAN :
    CreateAnnouncement(r, u, type, role, classId, ok)

AnnouncementResume == \E r \in ReqIds : EmitAnnouncement(r)

\* The target audiences the requests that create, update and delete
\* announcements carry.
EditAudiences ==
  {[type |-> "all", role |-> Undefined, classId |-> 0],
   [type |-> "role", role |-> "student", classId |-> 0],
   [type |-> "role", role |-> "teacher", classId |-> 0],
   [type |-> "role", role |-> Undefined, classId |-> 0],
   [type |-> "class", role |-> Undefined, classId |-> 1],
   [type |-> "bogus", role |-> Undefined, classId |-> 0]}

AnnouncementEditArrive ==
  \E r \in ReqIds, u \in SocketUsers \cup Admins :
    \/ \E aud \in EditAudiences :
         CreateAnnouncement(r, u, aud.type, aud.role, aud.classId, TRUE)
    \/ \E id \in AnnouncementIds, aud \in EditAudiences :
         UpdateAnnouncementFind(r, u, id, TRUE, aud.type, aud.role, aud.classId)
    \/ \E id \in AnnouncementIds :
         UpdateAnnouncementFind(r, u, id, FALSE, Undefined, Undefined, 0)
    \/ \E id \in AnnouncementIds : DeleteAnnouncementFind(r, u, id)

AnnouncementEditResume ==
  \E r \in ReqIds :
    \/ EmitAnnouncement(r)
    \/ UpdateAnnouncementSave(r)
    \/ UpdateAnnouncementEmit(r)
    \/ DeleteAnnouncementDelete(r)
    \/ DeleteAnnouncementEmit(r)

\* Sockets and the message handlers (socket event and POST /messages).
NextMessage ==
  /\ ConnStep \/ MessageArrive \/ MessageResume
  /\ UNCHANGED <<classVars, contentVars, userVars, frontVars, windowVars>>

\* Sockets and POST /announcements.
NextAnnounce ==
  /\ ConnStep \/ AnnouncementArrive \/ AnnouncementResume
  /\ UNCHANGED <<classVars, contentVars, userVars, frontVars, windowVars>>

\* The sockets of a recipient (socket 1) and of other users, each presenting
\* its user's token.
TokenOf(c) == IF c = 1 THEN "s1" ELSE "t1"

NotifyConnStep ==
  \E c \in ConnIds : Connect(c) \/ Disconnect(c) \/ Authenticate(c, TokenOf(c))

NotifyMessageArrive ==
  \E r \in ReqIds, recipientId \in Recipients, ok \in BOOLEAN :
    \/ \E c \in ConnIds : SendPrivateMessage(c, r, recipientId, ok)
    \/ \E u \in Teachers : PostMessage(r, u, recipientId, ok)

\* Sockets, the message handlers and the notification routes, one request at
\* a time.
NextNotify ==
  /\ \/ NotifyConnStep
     \/ MsgQuiescent /\ (NotifyMessageArrive \/ NotificationArrive)
     \/ MessageResume \/ NotificationResume
  /\ UNCHANGED <<classVars, contentVars, userVars, frontVars, windowVars>>

\* Sockets and the requests that create, update and delete announcements.
NextAnnounceEdit ==
  /\ NotifyConnStep \/ AnnouncementEditArrive \/ AnnouncementEditResume
  /\ UNCHANGED <<classVars, contentVars, userVars, frontVars, windowVars>>

NextComm ==
  /\ \/ ConnStep \/ MessageArrive \/ MessageResume
     \/ NotificationArrive \/ NotificationResume
     \/ AnnouncementArrive \/ AnnouncementResume
     \/ AnnouncementEditArrive \/ AnnouncementEditResume
  /\ UNCHANGED <<classVars, contentVars, userVars, frontVars, windowVars>>

(***************************************************************************)
(* API gateway.  A path is the sequence of its segments: "/api/classes/7"  *)
(* is <<"api", "classes", "7">>, and an empty segment stands for two       *)
(* slashes in a row ("//7" is <<"", "7">>).  Query strings play no part in *)
(* the matching and are left out.                                          *)
(***************************************************************************)
ParamIds == {"id1", "id2"}

HttpRequest(method, path) == [method |-> method, path |-> path]

\* The requests of the store slices, below API_URL = ".../api".
AuthSliceRequests ==
  {HttpRequest("GET", <<"api", "users", "me">>),
   HttpRequest("POST", <<"api", "auth", "login">>),
   HttpRequest("POST", <<"api", "auth", "register">>)}
  \cup {HttpRequest("PUT", <<"api", "users", id>>) : id \in ParamIds}
  \cup {HttpRequest("POST", <<"api", "users", id, "change-password">>) : id \in ParamIds}

ClassSliceRequests ==
  {HttpRequest("GET", <<"api", "classes">>),
   HttpRequest("POST", <<"api", "classes">>),
   HttpRequest("POST", <<"api", "enrollments">>),
   HttpRequest("GET", <<"api", "enrollments", "student">>)}
  \cup {HttpRequest(m, <<"api", "classes", id>>) : m \in {"GET", "PUT", "DELETE"}, id \in ParamIds}
  \cup {HttpRequest("GET", <<"api", "enrollments", "class", id>>) : id \in ParamIds}
  \cup {HttpRequest("PUT", <<"api", "enrollments", id>>) : id \in ParamIds}
  \cup {HttpRequest("POST", <<"api", "enrollments", id, "attendance">>) : id \in ParamIds}

CommunicationSliceRequests ==
  {HttpRequest("GET", <<"api", "communications", "messages", "inbox">>),
   HttpRequest("GET", <<"api", "communications", "messages", "outbox">>),
   HttpRequest("POST", <<"api", "communications", "messages">>),
   HttpRequest("GET", <<"api", "communications", "announcements">>),
   HttpRequest("POST", <<"api", "communications", "announcements">>),
   HttpRequest("GET", <<"api", "communications", "notifications">>),
   HttpRequest("PUT", <<"api", "communications", "notifications", "read-all">>)}
  \cup {HttpRequest(m, <<"api", "communications", "messages", id>>) :
          m \in {"GET", "DELETE"}, id \in ParamIds}
  \cup {HttpRequest(m, <<"api", "communications", "announcements", id>>) :
          m \in {"GET", "PUT", "DELETE"}, id \in ParamIds}
  \cup {HttpRequest("PUT", <<"api", "communications", "notifications", id, "read">>) :
          id \in ParamIds}
  \cup {HttpRequest("DELETE", <<"api", "communications", "notifications", id>>) :
          id \in ParamIds}

ContentSliceRequests ==
  {HttpRequest("POST", <<"api", "content", "content-items">>),
   HttpRequest("POST", <<"api", "content", "content-modules">>)}
  \cup {HttpRequest("GET", <<"api", "content", kind, "class", id>>) :
          kind \in {"content-items", "content-modules"}, id \in ParamIds}
  \cup {HttpRequest(m, <<"api", "content", kind, id>>) :
          m \in {"GET", "PUT", "DELETE"},
          kind \in {"content-items", "content-modules"}, id \in ParamIds}
  \cup {HttpRequest("POST", <<"api", "content", "content-items", id, "attachments">>) :
          id \in ParamIds}

FrontendRequests ==
  AuthSliceRequests \cup ClassSliceRequests \cup CommunicationSliceRequests
    \cup ContentSliceRequests

\* The gateway's proxies in the order of their app.use calls.  replacement is
\* the path the pathRewrite puts in place of the prefix: <<>> is "/".
ProxyRule(prefix, service, replacement) ==
  [prefix |-> prefix, service |-> service, replacement |-> replacement]

ProxyRules ==
  <<ProxyRule(<<"api", "users">>, "user", <<>>),
    ProxyRule(<<"api", "classes">>, "class", <<>>),
    ProxyRule(<<"api", "content">>, "content", <<>>),
    ProxyRule(<<"api", "communications">>, "communication", <<>>),
    ProxyRule(<<"api", "auth">>, "user", <<"auth">>)>>

NoRule == ProxyRule(<<>>, "none", <<>>)

\* app.use(prefix, ...): the mount path matches whole leading segments.
Mounted(rule, path) ==
  Len(path) >= Len(rule.prefix) /\ SubSeq(path, 1, Len(rule.prefix)) = rule.prefix

RuleMatches(rule, path) == Mounted(rule, path)

HasRule(path) == \E i \in 1..Len(ProxyRules) : RuleMatches(ProxyRules[i], path)

\* The first proxy whose mount path matches.
FirstRule(path) ==
  IF HasRule(path)
  THEN ProxyRules[CHOOSE i \in 1..Len(ProxyRules) :
                    /\ RuleMatches(ProxyRules[i], path)
                    /\ \A j \in 1..(i - 1) : ~RuleMatches(ProxyRules[j], path)]
  ELSE NoRule

\* What follows the mount path.
AfterPrefix(rule, path) == SubSeq(path, Len(rule.prefix) + 1, Len(path))

\* pathRewrite applied to the original url: the prefix '^/api/<service>' is
\* replaced by the replacement string, and the rest of the path, which starts
\* with its own slash, follows it.
RewriteOriginalUrl(rule, path) ==
  LET rest == AfterPrefix(rule, path) IN
  IF rule.replacement = <<>>
  THEN IF rest = <<>> THEN <<>> ELSE <<"">> \o rest
  ELSE rule.replacement \o rest

\* pathRewrite applied to the url relative to the mount path: the pattern
\* '^/api/<service>' does not occur in it and the url is forwarded as it is.
RewriteMountedUrl(rule, path) == AfterPrefix(rule, path)

\* The proxy library rewrites the original url or the mounted url, depending
\* on its version; the repository does not pin one.
ForwardedPaths(rule, path) ==
  {RewriteOriginalUrl(rule, path), RewriteMountedUrl(rule, path)}

\* The routes of the services; ":" is a route parameter.
Route(method, pattern) == [method |-> method, pattern |-> pattern]

ServiceRoutes(service) ==
  IF service = "user" THEN
    {Route("GET", <<"health">>), Route("POST", <<"auth", "register">>),
     Route("POST", <<"auth", "login">>), Route("GET", <<"me">>),
     Route("GET", <<"users">>), Route("GET", <<"users", ":">>),
     Route("PUT", <<"users", ":">>), Route("POST", <<"users", ":", "change-password">>)}
  ELSE IF service = "class" THEN
    {Route("GET", <<"health">>), Route("POST", <<"classes">>), Route("GET", <<"classes">>),
     Route("GET", <<"classes", ":">>), Route("PUT", <<"classes", ":">>),
     Route("DELETE", <<"classes", ":">>), Route("POST", <<"enrollments">>),
     Route("GET", <<"enrollments", "student">>),
     Route("GET", <<"enrollments", "class", ":">>), Route("PUT", <<"enrollments", ":">>),
     Route("POST", <<"enrollments", ":", "attendance">>)}
  ELSE IF service = "content" THEN
    {Route("GET", <<"health">>), Route("POST", <<"content-items">>),
     Route("POST", <<"content-items", ":", "attachments">>),
     Route("GET", <<"content-items", "class", ":">>), Route("GET", <<"content-items", ":">>),
     Route("PUT", <<"content-items", ":">>), Route("DELETE", <<"content-items", ":">>),
     Route("POST", <<"content-modules">>), Route("GET", <<"content-modules", "class", ":">>),
     Route("GET", <<"content-modules", ":">>), Route("PUT", <<"content-modules", ":">>),
     Route("DELETE", <<"content-modules", ":">>)}
  ELSE IF service = "communication" THEN
    {Route("GET", <<"health">>), Route("POST", <<"messages">>),
     Route("POST", <<"messages", ":", "attachments">>), Route("GET", <<"messages", "inbox">>),
     Route("GET", <<"messages", "outbox">>), Route("GET", <<"messages", ":">>),
     Route("DELETE", <<"messages", ":">>), Route("POST", <<"announcements">>),
     Route("POST", <<"announcements", ":", "attachments">>), Route("GET", <<"announcements">>),
     Route("GET", <<"announcements", ":">>), Route("PUT", <<"announcements", ":">>),
     Route("DELETE", <<"announcements", ":">>), Route("GET", <<"notifications">>),
     Route("PUT", <<"notifications", ":", "read">>), Route("PUT", <<"notifications", "read-all">>),
     Route("DELETE", <<"notifications", ":">>)}
  ELSE {}

\* Express route matching: segment by segment, a parameter takes one segment
\* that is not empty.
RouteMatches(route, method, path) ==
  /\ route.method = method
  /\ Len(route.pattern) = Len(path)
  /\ \A i \in 1..Len(path) :
       IF route.pattern[i] = ":" THEN path[i] # "" ELSE route.pattern[i] = path[i]

Routed(service, method, path) ==
  \E route \in ServiceRoutes(service) : RouteMatches(route, method, path)

IdleGatewayReq ==
  [stage |-> "idle", method |-> "none", path |-> <<>>, rule |-> NoRule,
   forwarded |-> <<>>, res |-> 0]

InitGateway == greq = IdleGatewayReq

\* A thunk of a store slice sends its request.
Issue(q) ==
  /\ greq.stage \in {"idle", "answered"}
  /\ greq' = [IdleGatewayReq EXCEPT !.stage = "issued", !.method = q.method, !.path = q.path]

\* The gateway: the first proxy that matches rewrites the path and forwards
\* the request; with no proxy Express answers 404.
GatewayForward ==
  /\ greq.stage = "issued"
  /\ IF ~HasRule(greq.path)
     THEN greq' = [greq EXCEPT !.stage = "answered", !.res = 404]
     ELSE \E p \in ForwardedPaths(FirstRule(greq.path), greq.path) :
            greq' = [greq EXCEPT !.stage = "forwarded", !.rule = FirstRule(greq.path),
                                 !.forwarded = p]

\* The target service: a route handles the request (answer 200 here, whatever
\* the handler then answers), or Express answers 404.
ServiceRoute ==
  /\ greq.stage = "forwarded"
  /\ greq' = [greq EXCEPT
       !.stage = "answered",
       !.res = IF Routed(greq.rule.service, greq.method, greq.forwarded) THEN 200 ELSE 404]

NextGateway ==
  /\ (\E q \in FrontendRequests : Issue(q)) \/ GatewayForward \/ ServiceRoute
  /\ UNCHANGED <<classVars, contentVars, commVars, userVars, authVars, feedVars, noticeVars, windowVars>>

(***************************************************************************)
(* Frontend store, auth slice.  Null stands for null and for an undefined  *)
(* payload.                                                                *)
(***************************************************************************)
Null == "null"
Tokens == {Null, "token1"}
UserPayloads == {"user1", "user2"}
ErrorPayloads == {"Login failed", "No valid token found"}

\* initialState; token is localStorage.getItem('token').
AuthInitialState(token) ==
  [token |-> token, isAuthenticated |-> FALSE, loading |-> TRUE, user |-> Null,
   error |-> Null]

AuthAction(type, payload) == [type |-> type, payload |-> payload]

\* The thunks whose three cases have the same reducers.
SessionThunks == {"auth/loadUser", "auth/login", "auth/register"}

AuthActions ==
  {AuthAction("auth/clearError", Null), AuthAction("auth/logout/fulfilled", Null),
   AuthAction("auth/changePassword/fulfilled", Null)}
  \cup {AuthAction(t \o "/pending", Null) :
          t \in SessionThunks \cup {"auth/updateProfile", "auth/changePassword"}}
  \cup {AuthAction(t \o "/fulfilled", u) :
          t \in SessionThunks \cup {"auth/updateProfile"}, u \in UserPayloads}
  \cup {AuthAction(t \o "/rejected", e) :
          t \in SessionThunks \cup {"auth/updateProfile", "auth/changePassword"},
          e \in ErrorPayloads}

\* loadUser.pending and the other pending cases
AuthPending(state) == [state EXCEPT !.loading = TRUE]

\* loadUser.fulfilled, login.fulfilled, register.fulfilled
SessionFulfilled(state, payload) ==
  [state EXCEPT !.isAuthenticated = TRUE, !.loading = FALSE, !.user = payload,
                !.error = Null]

\* Mutant of SessionRejected: the token is kept.
SessionRejectedKeepsToken(state, payload) ==
  [state EXCEPT !.isAuthenticated = FALSE, !.loading = FALSE, !.user = Null,
                !.error = payload]

\* loadUser.rejected, login.rejected, register.rejected
SessionRejected(state, payload) ==
  [state EXCEPT !.token = Null, !.isAuthenticated = FALSE, !.loading = FALSE,
                !.user = Null, !.error = payload]

\* updateProfile.fulfilled
ProfileFulfilled(state, payload) ==
  [state EXCEPT !.loading = FALSE, !.user = payload, !.error = Null]

\* changePassword.fulfilled
PasswordFulfilled(state) == [state EXCEPT !.loading = FALSE, !.error = Null]

\* updateProfile.rejected, changePassword.rejected
EditRejected(state, payload) == [state EXCEPT !.loading = FALSE, !.error = payload]

\* logout.fulfilled
LogoutFulfilled(state) ==
  [state EXCEPT !.token = Null, !.isAuthenticated = FALSE, !.loading = FALSE,
                !.user = Null, !.error = Null]

\* reducers.clearError
ClearError(state) == [state EXCEPT !.error = Null]

\* authSlice.reducer
AuthReducer(state, action) ==
  LET t == action.type IN
  IF t = "auth/clearError" THEN ClearError(state)
  ELSE IF t = "auth/logout/fulfilled" THEN LogoutFulfilled(state)
  ELSE IF t = "auth/changePassword/fulfilled" THEN PasswordFulfilled(state)
  ELSE IF t = "auth/updateProfile/fulfilled" THEN ProfileFulfilled(state, action.payload)
  ELSE IF t \in {"auth/updateProfile/rejected", "auth/changePassword/rejected"}
  THEN EditRejected(state, action.payload)
  ELSE IF t \in {s \o "/fulfilled" : s \in SessionThunks}
  THEN SessionFulfilled(state, action.payload)
  ELSE IF t \in {s \o "/rejected" : s \in SessionThunks}
  THEN SessionRejected(state, action.payload)
  ELSE AuthPending(state)

NoAuthAction == AuthAction("@@INIT", Null)

InitAuth ==
  /\ auth \in {AuthInitialState(token) : token \in Tokens}
  /\ authAction = NoAuthAction

\* store.dispatch(action)
DispatchAuth(action) ==
  /\ auth' = AuthReducer(auth, action)
  /\ authAction' = action

NextAuth ==
  /\ \E action \in AuthActions : DispatchAuth(action)
  /\ UNCHANGED <<classVars, contentVars, commVars, userVars, gatewayVars, feedVars, noticeVars, windowVars>>

(***************************************************************************)
(* Communication service, GET /announcements: announcements with their     *)
(* validity window.  Dates are clock ticks; NoDate is an absent endDate.   *)
(***************************************************************************)
Times == 0..MaxTime
NoDate == -1

\* { endDate: { $exists: false } } or { endDate: { $gte: now } }
WindowOpen(a, t) == a.endDate = NoDate \/ a.endDate >= t

\* The audience clauses of the query.
AudienceClauses(a, role) ==
  \/ a.type = "all"
  \/ a.type = "role" /\ a.role = role
  \/ role \in {"student", "teacher"} /\ a.type = "class"

\* The filter Announcement.find receives: the assignment to query.$or
\* replaces the $or of the endDate clauses that the query was built with.
ListQuery(a, role, t) == a.startDate <= t /\ AudienceClauses(a, role)

NoListing == [user |-> "none", at |-> 0, ids |-> {}]

InitWindow ==
  /\ now = 0
  /\ windowed = {}
  /\ listing = NoListing

\* POST /announcements by a teacher or an admin with a valid body; startDate
\* defaults to Date.now.
CreateWindowed(u, type, role, start, end) ==
  /\ Role(u) \in {"teacher", "admin"}
  /\ Cardinality(windowed) < MaxWindows
  /\ windowed' = windowed \cup
       {[id |-> Cardinality(windowed) + 1, authorId |-> u, type |-> type, role |-> role,
         startDate |-> IF start = NoDate THEN now ELSE start, endDate |-> end]}
  /\ listing' = NoListing
  /\ UNCHANGED now

\* GET /announcements
ListAnnouncements(u) ==
  /\ listing' = [user |-> u, at |-> now,
                 ids |-> {a.id : a \in {b \in windowed : ListQuery(b, Role(u), now)}}]
  /\ UNCHANGED <<now, windowed>>

\* Time passes.
Tick ==
  /\ now < MaxTime
  /\ now' = now + 1
  /\ listing' = NoListing
  /\ UNCHANGED windowed

NextWindow ==
  /\ \/ \E u \in UserIds, start \in Times \cup {NoDate}, end \in Times \cup {NoDate} :
          \/ CreateWindowed(u, "all", Undefined, start, end)
          \/ \E role \in AudienceRoles : CreateWindowed(u, "role", role, start, end)
     \/ \E u \in UserIds : ListAnnouncements(u)
     \/ Tick
  /\ UNCHANGED <<classVars, contentVars, commVars, userVars, frontVars>>

(***************************************************************************)
(* Frontend store, communication slice: the announcements list of one      *)
(* client, a teacher with an authenticated socket.  The server side is the *)
(* set of stored announcements, the responses on their way to the client   *)
(* and the socket's events in the order the server emitted them.           *)
(***************************************************************************)
FeedIds == 1..MaxFeed
ClientRole == "teacher"

FeedEntry(id, rev) == [id |-> id, rev |-> rev]

\* state.announcements.unshift(action.payload)
Unshift(list, entry) == <<entry>> \o list

\* addAnnouncement
AddAnnouncement(list, entry) == Unshift(list, entry)

\* createAnnouncement.fulfilled
CreateAnnouncementFulfilled(list, entry) == Unshift(list, entry)

\* updateAnnouncementInState and updateAnnouncement.fulfilled:
\* state.announcements.map(...)
UpdateAnnouncementInState(list, entry) ==
  [i \in 1..Len(list) |-> IF list[i].id = entry.id THEN entry ELSE list[i]]

\* removeAnnouncement and deleteAnnouncement.fulfilled:
\* state.announcements.filter(...)
RemoveAnnouncement(list, id) == SelectSeq(list, LAMBDA e : e.id # id)

\* The announcements of the store as a list, newest first (the order plays
\* no part in what follows).
RECURSIVE ListOf(_)
ListOf(S) ==
  IF S = {} THEN <<>>
  ELSE LET e == CHOOSE x \in S : \A y \in S : y.id <= x.id
       IN <<e>> \o ListOf(S \ {e})

\* communicationSlice.reducer on the announcements list.
FeedReducer(list, action) ==
  IF action.type = "communication/addAnnouncement"
  THEN AddAnnouncement(list, action.payload)
  ELSE IF action.type = "communication/createAnnouncement/fulfilled"
  THEN CreateAnnouncementFulfilled(list, action.payload)
  ELSE IF action.type = "communication/updateAnnouncementInState"
  THEN UpdateAnnouncementInState(list, action.payload)
  ELSE IF action.type = "communication/removeAnnouncement"
  THEN RemoveAnnouncement(list, action.payload)
  ELSE IF action.type = "communication/getAnnouncements/fulfilled"
  THEN action.payload
  ELSE list

FeedAction(type, payload) == [type |-> type, payload |-> payload]

\* The server's emit reaches the client's socket: io.emit for the audiences
\* 'all' and 'class', the role room for the audience 'role'.
ReachesClient(type, role) ==
  type \in {"all", "class"} \/ (type = "role" /\ role = ClientRole)

InitFeed ==
  /\ stateAnnouncements = <<>>
  /\ posted = {}
  /\ nextFeedId = 1
  /\ responses = {}
  /\ socketQueue = <<>>

\* POST /announcements answered 201, for the client (own) or for another
\* author: the announcement is stored, the event is emitted, and the client's
\* own request gets its response.
PostAnnouncement(own, type, role) ==
  /\ nextFeedId <= MaxFeed
  /\ Len(socketQueue) < MaxQueue
  /\ Cardinality(responses) < MaxQueue
  /\ LET entry == FeedEntry(nextFeedId, 0) IN
     /\ posted' = posted \cup {entry}
     /\ socketQueue' =
          IF ReachesClient(type, role)
          THEN Append(socketQueue, FeedAction("communication/addAnnouncement", entry))
          ELSE socketQueue
     /\ responses' =
          IF own
          THEN responses \cup {FeedAction("communication/createAnnouncement/fulfilled", entry)}
          ELSE responses
  /\ nextFeedId' = nextFeedId + 1
  /\ UNCHANGED stateAnnouncements

\* PUT /announcements/:id of another author answered 200.
PutAnnouncement(e) ==
  /\ e \in posted /\ e.rev < MaxRev
  /\ Len(socketQueue) < MaxQueue
  /\ posted' = (posted \ {e}) \cup {FeedEntry(e.id, e.rev + 1)}
  /\ socketQueue' = Append(socketQueue,
       FeedAction("communication/updateAnnouncementInState", FeedEntry(e.id, e.rev + 1)))
  /\ UNCHANGED <<stateAnnouncements, nextFeedId, responses>>

\* DELETE /announcements/:id of another author answered 200.
DeleteAnnouncement(e) ==
  /\ e \in posted
  /\ Len(socketQueue) < MaxQueue
  /\ posted' = posted \ {e}
  /\ socketQueue' = Append(socketQueue, FeedAction("communication/removeAnnouncement", e.id))
  /\ UNCHANGED <<stateAnnouncements, nextFeedId, responses>>

\* GET /announcements answered with the stored announcements.
GetAnnouncements ==
  /\ Cardinality(responses) < MaxQueue
  /\ responses' = responses \cup
       {FeedAction("communication/getAnnouncements/fulfilled", ListOf(posted))}
  /\ UNCHANGED <<stateAnnouncements, posted, nextFeedId, socketQueue>>

\* The socket's next event arrives and its listener dispatches.
SocketEvent ==
  /\ socketQueue # <<>>
  /\ stateAnnouncements' = FeedReducer(stateAnnouncements, Head(socketQueue))
  /\ socketQueue' = Tail(socketQueue)
  /\ UNCHANGED <<posted, nextFeedId, responses>>

\* A response arrives and its thunk dispatches fulfilled.
ThunkFulfilled(action) ==
  /\ action \in responses
  /\ stateAnnouncements' = FeedReducer(stateAnnouncements, action)
  /\ responses' = responses \ {action}
  /\ UNCHANGED <<posted, nextFeedId, socketQueue>>

NextFeed ==
  /\ \/ \E own \in BOOLEAN, type \in AudienceTypes, role \in {"teacher", "student"} :
          PostAnnouncement(own, type, role)
     \/ \E e \in posted : PutAnnouncement(e)
     \/ \E e \in posted : DeleteAnnouncement(e)
     \/ GetAnnouncements
     \/ SocketEvent
     \/ \E action \in responses : ThunkFulfilled(action)
  /\ UNCHANGED <<classVars, contentVars, commVars, userVars, gatewayVars, authVars,
                 noticeVars, windowVars>>

(***************************************************************************)
(* Frontend store, communication slice: the notifications list and the     *)
(* unread counter.  A notification is its _id and its read flag.           *)
(***************************************************************************)
NoticeIds == 1..MaxNotices
Notification(id, read) == [id |-> id, read |-> read]
Notifications == {Notification(id, read) : id \in NoticeIds, read \in BOOLEAN}

\* The answers of GET /notifications: lists of stored notifications, each
\* _id at most once.
NoticeLists ==
  {l \in UNION {[1..n -> Notifications] : n \in 0..MaxNotices} :
     \A i, j \in 1..Len(l) : l[i].id = l[j].id => i = j}

NoticeState(list, count) == [notifications |-> list, unreadNotificationsCount |-> count]

\* notifications.filter(notification => !notification.read).length
UnreadLength(list) == Cardinality({i \in 1..Len(list) : ~list[i].read})

\* addNotification
AddNotification(state, payload) ==
  NoticeState(<<payload>> \o state.notifications, state.unreadNotificationsCount + 1)

\* getNotifications.fulfilled
GetNotificationsFulfilled(state, payload) ==
  NoticeState(payload, UnreadLength(payload))

\* markNotificationAsRead.fulfilled
MarkNotificationAsReadFulfilled(state, payload) ==
  LET list == [i \in 1..Len(state.notifications) |->
                 IF state.notifications[i].id = payload.id THEN payload
                 ELSE state.notifications[i]]
  IN NoticeState(list, UnreadLength(list))

\* markAllNotificationsAsRead.fulfilled
MarkAllNotificationsAsReadFulfilled(state) ==
  NoticeState([i \in 1..Len(state.notifications) |->
                 Notification(state.notifications[i].id, TRUE)], 0)

\* state.notifications.find(notification => notification._id === id)
FindDeleted(list, id) ==
  IF \E i \in 1..Len(list) : list[i].id = id
  THEN list[CHOOSE i \in 1..Len(list) :
              list[i].id = id /\ \A j \in 1..(i - 1) : list[j].id # id]
  ELSE Notification(0, TRUE)

\* deleteNotification.fulfilled with the counter lowered for every deleted
\* notification, read or not.
DeleteNotificationFulfilledAnyRead(state, id) ==
  LET deletedNotification == FindDeleted(state.notifications, id)
  IN NoticeState(SelectSeq(state.notifications, LAMBDA n : n.id # id),
                 IF deletedNotification.id # 0
                 THEN state.unreadNotificationsCount - 1
                 ELSE state.unreadNotificationsCount)

\* deleteNotification.fulfilled
DeleteNotificationFulfilled(state, id) ==
  LET deletedNotification == FindDeleted(state.notifications, id)
  IN NoticeState(SelectSeq(state.notifications, LAMBDA n : n.id # id),
                 IF deletedNotification.id # 0 /\ ~deletedNotification.read
                 THEN state.unreadNotificationsCount - 1
                 ELSE state.unreadNotificationsCount)

\* communicationSlice.reducer on the notifications and their counter.
NoticeReducer(state, action) ==
  IF action.type = "communication/addNotification"
  THEN AddNotification(state, action.payload)
  ELSE IF action.type = "communication/getNotifications/fulfilled"
  THEN GetNotificationsFulfilled(state, action.payload)
  ELSE IF action.type = "communication/markNotificationAsRead/fulfilled"
  THEN MarkNotificationAsReadFulfilled(state, action.payload)
  ELSE IF action.type = "communication/markAllNotificationsAsRead/fulfilled"
  THEN MarkAllNotificationsAsReadFulfilled(state)
  ELSE IF action.type = "communication/deleteNotification/fulfilled"
  THEN DeleteNotificationFulfilled(state, action.payload)
  ELSE state

\* The actions the store can receive: a notification from the socket, and
\* the answers of the notification requests (a notification marked read
\* comes back with read = true).
NoticeActions ==
  {FeedAction("communication/addNotification", n) : n \in Notifications}
  \cup {FeedAction("communication/getNotifications/fulfilled", l) : l \in NoticeLists}
  \cup {FeedAction("communication/markNotificationAsRead/fulfilled", Notification(id, TRUE)) :
          id \in NoticeIds}
  \cup {FeedAction("communication/markAllNotificationsAsRead/fulfilled", Null)}
  \cup {FeedAction("communication/deleteNotification/fulfilled", id) : id \in NoticeIds}

\* The payload of addNotification is unread and its _id is not in the list.
FreshUnread(list, payload) ==
  ~payload.read /\ \A i \in 1..Len(list) : list[i].id # payload.id

NoNoticeAction == "@@INIT"

InitNotice ==
  /\ stateNotifications = <<>>
  /\ unreadNotificationsCount = 0
  /\ noticeAction = NoNoticeAction
  /\ freshAdds = TRUE

\* store.dispatch(action); freshAdds records whether every addNotification
\* so far carried an unread notification with a new _id.
DispatchNotice(action) ==
  LET state == NoticeState(stateNotifications, unreadNotificationsCount)
      next == NoticeReducer(state, action)
  IN /\ action.type = "communication/addNotification" =>
          (Len(stateNotifications) < MaxList /\ unreadNotificationsCount < MaxList)
     /\ stateNotifications' = next.notifications
     /\ unreadNotificationsCount' = next.unreadNotificationsCount
     /\ noticeAction' = action.type
     /\ freshAdds' = (freshAdds /\ (action.type = "communication/addNotification" =>
                                      FreshUnread(stateNotifications, action.payload)))

NextNotice ==
  /\ \E action \in NoticeActions : DispatchNotice(action)
  /\ UNCHANGED <<classVars, contentVars, commVars, userVars, gatewayVars, authVars,
                 feedVars, windowVars>>

\* The frontend with no token in localStorage.
InitFront ==
  /\ InitGateway
  /\ auth = AuthInitialState(Null)
  /\ authAction = NoAuthAction
  /\ InitFeed
  /\ InitNotice

(***************************************************************************)
(* User service: registration and login.                                   *)
(* The schema's setters (lowercase on email) run when a document is built  *)
(* and when a query filter is cast.  A password hash is <<"bcrypt", p>>.   *)
(***************************************************************************)
Emails == {"a@x.io", "A@x.io", "b@x.io", "not-an-email"}
Usernames == {"alice", "bob"}
UserRoles == {"admin", "teacher", "student"}

\* String.prototype.toLowerCase on the emails of the model.
Lower(e) == IF e = "A@x.io" THEN "a@x.io" ELSE e

\* The email a new User document holds: the schema has lowercase: true.
StoredEmail(e) == Lower(e)
\* The email a query filter is cast to.
QueryEmailAsGiven(e) == e
QueryEmail(e) == Lower(e)

\* bcrypt.hash and bcrypt.compare
Hash(p) == <<"bcrypt", p>>
ComparePassword(p, passwordHash) == passwordHash = Hash(p)

NoUser == [id |-> 0, username |-> "none", email |-> "none", passwordHash |-> <<>>,
           role |-> "none"]
NoToken == [id |-> 0, email |-> "none", role |-> "none"]

IdleUserReq ==
  [kind |-> "idle", pc |-> "done", username |-> "none", email |-> "none",
   password |-> "none", role |-> "none", user |-> NoUser, token |-> NoToken, res |-> 0]

UserFree(r) == ureq[r].pc = "done"
UserFirstFree(r) == UserFree(r) /\ \A q \in ReqIds : q < r => ~UserFree(q)
UserStep(r, rec) ==
  ureq' = [q \in ReqIds |->
             IF q = r THEN rec
             ELSE IF ureq[q].pc = "done" THEN IdleUserReq
             ELSE ureq[q]]
UserRespond(r, req, code) == UserStep(r, [req EXCEPT !.pc = "done", !.res = code])

InitUser ==
  /\ users = {}
  /\ nextUserId = 1
  /\ ureq = [r \in ReqIds |-> IdleUserReq]
  /\ registered = {}

\* Joi.string().email()
IsEmail(e) == e # "not-an-email"
\* registerSchema: password has at least 6 characters, role is of the enum.
JoiRegisterOk(username, email, password, role) ==
  IsEmail(email) /\ password # "short" /\ role \in UserRoles
\* loginSchema
JoiLoginOk(email, password) == IsEmail(email)

\* User.findOne({ $or: [{ email }, { username }] })
ExistingUser(email, username) ==
  \E u \in users : u.email = QueryEmail(email) \/ u.username = username

\* POST /auth/register up to newUser.save().
RegisterFind(r, username, email, password, role) ==
  /\ UserFirstFree(r)
  /\ nextUserId <= MaxUsers
  /\ LET req == [IdleUserReq EXCEPT !.kind = "register", !.username = username,
                                    !.email = email, !.password = password,
                                    !.role = role]
     IN
     IF ~JoiRegisterOk(username, email, password, role) THEN UserRespond(r, req, 400)
     ELSE IF ExistingUser(email, username) THEN UserRespond(r, req, 400)
     ELSE UserStep(r, [req EXCEPT !.pc = "saveUser"])
  /\ UNCHANGED <<users, nextUserId, registered>>

\* newUser.save(): the unique indexes on username and email reject a
\* duplicate.
RegisterSave(r) ==
  /\ ureq[r].pc = "saveUser"
  /\ LET req == ureq[r]
         newUser == [id |-> nextUserId, username |-> req.username,
                     email |-> StoredEmail(req.email),
                     passwordHash |-> Hash(req.password), role |-> req.role]
     IN
     IF \E u \in users : u.email = newUser.email \/ u.username = newUser.username
     THEN /\ UserRespond(r, req, 500)
          /\ UNCHANGED <<users, nextUserId, registered>>
     ELSE /\ users' = users \cup {newUser}
          /\ nextUserId' = nextUserId + 1
          /\ registered' = registered \cup
               {[email |-> req.email, password |-> req.password, role |-> req.role]}
          /\ UserRespond(r, req, 201)

\* POST /auth/login up to the LocalStrategy's User.findOne({ email }).
LoginFind(r, email, password) ==
  /\ UserFirstFree(r)
  /\ LET req == [IdleUserReq EXCEPT !.kind = "login", !.email = email,
                                    !.password = password]
     IN
     IF ~JoiLoginOk(email, password) THEN UserRespond(r, req, 400)
     ELSE IF ~\E u \in users : u.email = QueryEmail(email) THEN UserRespond(r, req, 401)
     ELSE UserStep(r, [req EXCEPT
            !.pc = "comparePassword",
            !.user = CHOOSE u \in users : u.email = QueryEmail(email)])
  /\ UNCHANGED <<users, nextUserId, registered>>

\* user.comparePassword(password), then the token signed from the user.
LoginCompare(r) ==
  /\ ureq[r].pc = "comparePassword"
  /\ LET req == ureq[r] IN
     IF ~ComparePassword(req.password, req.user.passwordHash)
     THEN UserRespond(r, req, 401)
     ELSE UserRespond(r, [req EXCEPT !.token = [id |-> req.user.id,
                                                email |-> req.user.email,
                                                role |-> req.user.role]], 200)
  /\ UNCHANGED <<users, nextUserId, registered>>

\* The roles and passwords the requests of the model carry.
RegisterRoles == {"teacher", "student", "bogus"}
RegisterPasswords == {"secret1", "short"}
LoginPasswords == {"secret1", "secret2"}

UserArrive ==
  \E r \in ReqIds, email \in Emails :
    \/ \E username \in Usernames, role \in RegisterRoles,
          password \in RegisterPasswords :
         RegisterFind(r, username, email, password, role)
    \/ \E password \in LoginPasswords : LoginFind(r, email, password)

UserResume == \E r \in ReqIds : RegisterSave(r) \/ LoginCompare(r)

\* The user service, handlers interleaved at their store operations.
NextUser ==
  /\ UserArrive \/ UserResume
  /\ UNCHANGED <<classVars, contentVars, commVars, frontVars, windowVars>>

(***************************************************************************)
(* The class service.  Requests arrive and handlers resume after a store   *)
(* operation, in any order.                                                *)
(***************************************************************************)
BodyStatuses == EnrollmentStatuses \cup {"bogus"}

ClassArrive ==
  \E r \in ReqIds, u \in UserIds :
    \/ \E t \in Teachers \cup {"none"}, cap \in 0..MaxCapacity : CreateClass(r, u, t, cap)
    \/ \E cid \in ClassIds, cap \in 0..MaxCapacity : UpdateClassFind(r, u, cid, cap)
    \/ \E cid \in ClassIds : DeleteClassFind(r, u, cid)
    \/ \E cid \in ClassIds : EnrollFindClass(r, u, cid)
    \/ \E eid \in EnrollmentIds, st \in BodyStatuses : UpdateEnrollmentFind(r, u, eid, st)

ClassResume ==
  \E r \in ReqIds :
    \/ UpdateClassSave(r)
    \/ DeleteClassEnrollments(r)
    \/ DeleteClassDelete(r)
    \/ EnrollFindExisting(r)
    \/ EnrollSaveEnrollment(r)
    \/ EnrollSaveCount(r, TRUE)
    \/ UpdateEnrollmentFindClass(r)
    \/ UpdateEnrollmentSave(r)

NextClass == (ClassArrive \/ ClassResume) /\ UNCHANGED <<contentVars, commVars, userVars, frontVars, windowVars>>

\* One request at a time: a request arrives only when none is being handled.
NextClassSeq ==
  /\ (Quiescent /\ ClassArrive) \/ ClassResume
  /\ UNCHANGED <<contentVars, commVars, userVars, frontVars, windowVars>>

\* The enrollment handlers of a class a teacher has created, run concurrently
\* for students and the teacher.
EnrollArrive ==
  \E r \in ReqIds, u \in Students \cup Teachers :
    \/ \E cap \in 1..MaxCapacity : CreateClass(r, u, "none", cap)
    \/ \E cid \in ClassIds : EnrollFindClass(r, u, cid)
    \/ \E eid \in EnrollmentIds, st \in EnrollmentStatuses : UpdateEnrollmentFind(r, u, eid, st)

EnrollResume ==
  \E r \in ReqIds :
    \/ EnrollFindExisting(r)
    \/ EnrollSaveEnrollment(r)
    \/ EnrollSaveCount(r, TRUE)
    \/ UpdateEnrollmentFindClass(r)
    \/ UpdateEnrollmentSave(r)

NextEnroll == (EnrollArrive \/ EnrollResume) /\ UNCHANGED <<contentVars, commVars, userVars, frontVars, windowVars>>

\* The enrollment handlers, one request at a time, with a store that may
\* reject the counter write of POST /enrollments.
EnrollFailResume ==
  \E r \in ReqIds :
    \/ EnrollFindExisting(r)
    \/ EnrollSaveEnrollment(r)
    \/ \E ok \in BOOLEAN : EnrollSaveCount(r, ok)
    \/ UpdateEnrollmentFindClass(r)
    \/ UpdateEnrollmentSave(r)

NextEnrollFail ==
  /\ (Quiescent /\ EnrollArrive) \/ EnrollFailResume
  /\ UNCHANGED <<contentVars, commVars, userVars, frontVars, windowVars>>

\* The requests that change or remove a class and its enrollments, interleaved
\* at their store operations.
RosterArrive ==
  \E r \in ReqIds, u \in UserIds :
    \/ \E cid \in ClassIds, cap \in 1..MaxCapacity : UpdateClassFind(r, u, cid, cap)
    \/ \E cid \in ClassIds : DeleteClassFind(r, u, cid)
    \/ \E eid \in EnrollmentIds, st \in BodyStatuses : UpdateEnrollmentFind(r, u, eid, st)

RosterResume ==
  \E r \in ReqIds :
    \/ UpdateClassSave(r)
    \/ DeleteClassEnrollments(r)
    \/ DeleteClassDelete(r)
    \/ UpdateEnrollmentFindClass(r)
    \/ UpdateEnrollmentSave(r)

NextRoster == (RosterArrive \/ RosterResume) /\ UNCHANGED <<contentVars, commVars, userVars, frontVars, windowVars>>

Init == InitClass /\ InitContent /\ InitComm /\ InitUser /\ InitFront /\ InitWindow

\* The class service after teacher t1 has created class 1 with capacity 2 and
\* student s1 has enrolled in it.
InitRoster ==
  /\ classes = {[id |-> 1, teacherId |-> "t1", capacity |-> 2, enrollmentCount |-> 1]}
  /\ enrollments = {[id |-> 1, classId |-> 1, studentId |-> "s1", status |-> "active"]}
  /\ nextClassId = 2
  /\ nextEnrollmentId = 2
  /\ creq = [r \in ReqIds |-> IdleReq]
  /\ enrolled = {1}
  /\ InitContent
  /\ InitComm
  /\ InitUser
  /\ InitFront
  /\ InitWindow

Next == NextClass \/ NextContent \/ NextComm \/ NextUser \/ NextGateway \/ NextAuth \/ NextWindow \/ NextFeed \/ NextNotice

Spec == Init /\ [][Next]_vars

\* The class service, one request at a time.
SpecClassSeq == Init /\ [][NextClassSeq]_vars

\* The enrollment handlers, interleaved at their store operations.
SpecEnroll == Init /\ [][NextEnroll]_vars

\* Changes and removals of an existing class with an enrolled student.
SpecRoster == InitRoster /\ [][NextRoster]_vars

\* The enrollment handlers, one request at a time, counter write failures
\* included.
SpecEnrollFail == Init /\ [][NextEnrollFail]_vars

SpecContentSeq == Init /\ [][NextContentSeq]_vars

\* Concurrent edits of documents by their author.
SpecContentEdit == Init /\ [][NextContentEdit]_vars

SpecContent == Init /\ [][NextContent]_vars

\* The client's announcements list under responses and socket events.
SpecFeed == Init /\ [][NextFeed]_vars

\* The client's notifications and unread counter under dispatched actions.
SpecNotice == Init /\ [][NextNotice]_vars

\* Announcements with validity windows and their listing as time passes.
SpecWindow == Init /\ [][NextWindow]_vars

\* The auth slice under every sequence of its actions, with or without a token
\* in localStorage at start.
InitSession ==
  InitClass /\ InitContent /\ InitComm /\ InitUser /\ InitGateway /\ InitAuth /\ InitFeed /\ InitNotice
    /\ InitWindow

SpecAuth == InitSession /\ [][NextAuth]_vars

\* The requests of the frontend through the gateway.
SpecGateway == Init /\ [][NextGateway]_vars

\* Registration and login.
SpecUser == Init /\ [][NextUser]_vars

\* Sockets and private messages.
SpecMessage == Init /\ [][NextMessage]_vars

\* Sockets, private messages and the notification routes.
SpecNotify == Init /\ [][NextNotify]_vars

\* Sockets and the creation, update and deletion of announcements.
SpecAnnounceEdit == Init /\ [][NextAnnounceEdit]_vars

\* Sockets and announcements, with a class that has a student enrolled.
SpecAnnounce == InitRoster /\ [][NextAnnounce]_vars

(***************************************************************************)
(* Properties of the class service                                         *)
(***************************************************************************)
ActiveCount(cid) ==
  Cardinality({e \in enrollments : e.classId = cid /\ e.status = "active"})

\* The enrollmentCount of class cid after the step (-1 when it has no Class).
CountAfter(cid) ==
  IF \E c \in classes' : c.id = cid
  THEN (CHOOSE c \in classes' : c.id = cid).enrollmentCount
  ELSE -1

\* Slot r's handler sends its answer in this step.
Answered(r) == creq'[r].pc = "done" /\ creq'[r].res # 0 /\ creq'[r] # creq[r]

\* An Enrollment of the requester for the requested class, other than the one
\* request r has itself created.
EarlierEnrollments(r) ==
  {e \in enrollments : /\ e.classId = creq'[r].classId
                       /\ e.studentId = creq'[r].user
                       /\ e.id # creq'[r].enrollmentId}

\* C1: whenever no request is being handled and every Enrollment is active or
\* dropped (only enrolls and drops have acted on it), each Class's
\* enrollmentCount equals the number of its active Enrollments.
C1_CountEqualsActive ==
  (Quiescent /\ \A e \in enrollments : e.status \in {"active", "dropped"})
    => \A c \in classes : c.enrollmentCount = ActiveCount(c.id)

\* C2: the counter write of POST /enrollments stores the value the handler
\* loaded plus one, whatever the stored value has become since: of two enroll
\* requests that both loaded the counter with one seat free, both pass the
\* capacity check, both are answered 201, and the counter rises once.
C2_CounterWriteLosesUpdates ==
  [][\A r \in ReqIds :
       (Answered(r) /\ creq'[r].kind = "enroll" /\ creq'[r].res = 201)
         => CountAfter(creq[r].classId)
              = creq[r].classItem.enrollmentCount + 1]_vars

\* C2 witness: two students hold an active Enrollment of a class of capacity
\* 1, both were answered 201, and enrollmentCount is 1.
C2_BothEnrolledOverCapacity ==
  \E c \in classes : \E e1, e2 \in enrollments :
    /\ e1.classId = c.id /\ e2.classId = c.id
    /\ e1.studentId # e2.studentId
    /\ e1.status = "active" /\ e2.status = "active"
    /\ e1.id \in enrolled /\ e2.id \in enrolled
    /\ c.capacity = 1
    /\ ActiveCount(c.id) > c.capacity
    /\ c.enrollmentCount = 1

C4_ReenrollAfterDropAccepted ==
  [][\A r \in ReqIds :
       (/\ Answered(r) /\ creq'[r].kind = "enroll"
        /\ Role(creq'[r].user) = "student"
        /\ ClassFound(creq'[r].classId)
        /\ FindClass(creq'[r].classId).enrollmentCount
             < FindClass(creq'[r].classId).capacity
        /\ EarlierEnrollments(r) # {}
        /\ \A e \in EarlierEnrollments(r) : e.status = "dropped")
         => creq'[r].res = 201]_vars

\* C5: no Class has a negative enrollmentCount.
C5_CountNeverNegative == \A c \in classes : c.enrollmentCount >= 0

\* C5 witness: a drop of an Enrollment that was dropped already has just been
\* answered 200.
C5_DroppedTwice ==
  \E r \in ReqIds :
    /\ creq[r].kind = "updateEnrollment" /\ creq[r].pc = "done"
    /\ creq[r].res = 200 /\ creq[r].bodyStatus = "dropped"
    /\ creq[r].prevStatus = "dropped"
    /\ ClassFound(creq[r].classId)
    /\ FindClass(creq[r].classId).enrollmentCount >= 0

(***************************************************************************)
(* Properties of the content service                                       *)
(***************************************************************************)
ItemAnswered(r) == kreq'[r].pc = "done" /\ kreq'[r].res # 0 /\ kreq'[r] # kreq[r]

\* The stored ContentItem id after the step.
ItemAfter(id) ==
  IF \E it \in items' : it.id = id THEN CHOOSE it \in items' : it.id = id ELSE NoItem

\* C6: with one request at a time, a PUT /content-items/:id answered 200 that
\* changes the stored content appends exactly one entry, holding the previous
\* content, to previousVersions and raises version by 1; one that leaves the
\* content as it was appends nothing and leaves version unchanged.
C6_ContentChangeIsVersioned ==
  [][\A r \in ReqIds :
       (ItemAnswered(r) /\ kreq'[r].kind = "updateItem" /\ kreq'[r].res = 200)
         => LET before == FindItem(kreq'[r].itemId)
                after == ItemAfter(kreq'[r].itemId)
            IN
            IF after.content # before.content
            THEN /\ after.previousVersions
                      = Append(before.previousVersions, before.content)
                 /\ after.version = before.version + 1
            ELSE /\ after.previousVersions = before.previousVersions
                 /\ after.version = before.version]_vars

(***************************************************************************)
(* Properties of the communication service                                 *)
(***************************************************************************)
\* The sockets the last step emitted the event with payload id to.
Received(event, id) == {d.conn : d \in {e \in emitted : e.event = event /\ e.id = id}}

\* POST /announcements has just been answered 201 by slot r.
AnnouncementAnswered(r) ==
  mreq[r].kind = "announcement" /\ mreq[r].pc = "done" /\ mreq[r].res = 201

EnrolledIn(u, cid) ==
  \E e \in enrollments : e.classId = cid /\ e.studentId = u /\ e.status = "active"

\* C7: when an announcement has been created, its 'new-announcement' event
\* has reached exactly the sockets in the room of the targeted role if the
\* audience type is 'role', and every connected socket if it is 'all'; no
\* 'new-announcement' event is on a socket otherwise.
C7_RoleAndAllDelivery ==
  /\ \A r \in ReqIds :
       AnnouncementAnswered(r) =>
         LET a == FindAnnouncement(mreq[r].announcementId)
             got == Received("new-announcement", a.id)
         IN /\ a.type = "role" => got = RoomMembers(RoleRoom(a.role))
            /\ a.type = "all" => got = OpenConns
  /\ \A d \in emitted :
       d.event = "new-announcement" =>
         \E r \in ReqIds : AnnouncementAnswered(r) /\ mreq[r].announcementId = d.id

\* A 'role' announcement has reached a socket of the role's room while another
\* connected socket, outside the room, has not received it.
C7_RoleRoomOnly ==
  \E r \in ReqIds :
    /\ AnnouncementAnswered(r)
    /\ FindAnnouncement(mreq[r].announcementId).type = "role"
    /\ Received("new-announcement", mreq[r].announcementId) # {}
    /\ OpenConns \ Received("new-announcement", mreq[r].announcementId) # {}

\* C8: a 'new-announcement' event of an announcement with audience type
\* 'class' is only on sockets whose user has an active enrollment in the
\* targeted class.
C8_ClassAudienceOnlyEnrolled ==
  \A d \in emitted :
    (d.event = "new-announcement" /\ FindAnnouncement(d.id).type = "class")
      => EnrolledIn(conns[d.conn].userId, FindAnnouncement(d.id).classId)

\* C9: a 'new-message' event is only on sockets in the room of the message's
\* recipient, and only when the Message and the recipient's Notification for
\* it are in the store.
C9_NewMessageOnlyToRecipientRoom ==
  \A d \in emitted :
    d.event = "new-message" =>
      \E m \in messages :
        /\ m.id = d.id
        /\ d.conn \in RoomMembers(UserRoom(m.recipientId))
        /\ \E n \in notifications :
             n.userId = m.recipientId /\ n.relatedType = "message" /\ n.relatedId = m.id

\* A 'new-message' event has reached a socket of the recipient's room while
\* another connected socket has not received it.
C9_RecipientReached ==
  \E d \in emitted :
    /\ d.event = "new-message"
    /\ OpenConns \ Received("new-message", d.id) # {}

\* C10: a sendPrivateMessage promise that settles after its socket has been
\* sent the id of the persisted message is fulfilled with that id.
C10_PersistedSendFulfilled ==
  [][\A c \in ConnIds :
       (send[c].state = "pending" /\ send'[c].state # "pending"
          /\ send[c].messageSent # 0)
         => (send'[c].state = "fulfilled" /\ send'[c].messageId = send[c].messageSent)]_vars

\* Slot r has answered in this step.
MsgAnswered(r) == mreq'[r].pc = "done" /\ mreq'[r].kind # "idle" /\ mreq'[r] # mreq[r]

C12_EventHasNotification ==
  \A r \in ReqIds :
    /\ AnnouncementAnswered(r) =>
         \E n \in notifications :
           n.relatedType = "announcement" /\ n.relatedId = mreq[r].announcementId
    /\ (mreq[r].kind = "postMessage" /\ mreq[r].pc = "done" /\ mreq[r].res = 201) =>
         \E n \in notifications :
           n.relatedType = "message" /\ n.relatedId = mreq[r].messageId

\* C13: a socket that has just been answered 'authenticated' with failure has
\* no bound user id and is in no room.
C13_FailedAuthenticateUnbinds ==
  \A d \in emitted :
    (d.event = "authenticated" /\ d.id = 0)
      => (conns[d.conn].userId = Undefined /\ conns[d.conn].rooms = {})

\* C14: a 'private-message' on a connected socket with no bound user id
\* stores no Message and no Notification, emits exactly one event, an 'error'
\* to that socket, and leaves every socket as it was.
C14_UnauthenticatedSendRejected ==
  [][\A r \in ReqIds :
       (MsgAnswered(r) /\ mreq'[r].kind = "privateMessage" /\ mreq[r].pc = "done"
          /\ mreq'[r].senderId = Undefined)
         => /\ messages' = messages /\ notifications' = notifications
            /\ emitted' = {[conn |-> mreq'[r].conn, event |-> "error", id |-> 0]}
            /\ conns' = conns /\ conns'[mreq'[r].conn].open]_vars

\* An unauthenticated socket's 'private-message' has just been rejected while
\* another socket is connected.
C14_RejectedBesideOtherSocket ==
  \E r \in ReqIds :
    /\ mreq[r].kind = "privateMessage" /\ mreq[r].pc = "done"
    /\ mreq[r].senderId = Undefined
    /\ emitted = {[conn |-> mreq[r].conn, event |-> "error", id |-> 0]}
    /\ OpenConns \ {mreq[r].conn} # {}

\* The sockets this step emits the event with payload id to.
ReceivedNow(event, id) == {d.conn : d \in {e \in emitted' : e.event = event /\ e.id = id}}

\* The event of the edit (update or delete) slot r finishes in this step
\* reaches the audience a: the role room for 'role', every socket for 'all'.
EditEventReaches(r, event, a) ==
  /\ a.type = "role" =>
       ReceivedNow(event, mreq[r].announcementId) = RoomMembers(RoleRoom(a.role))
  /\ a.type = "all" => ReceivedNow(event, mreq[r].announcementId) = OpenConns

\* A request of the announcement routes answered 403 or 404 in this step
\* emits nothing.
RejectedEditEmitsNothing ==
  \A r \in ReqIds :
    (MsgAnswered(r) /\ mreq'[r].kind \in {"updateAnnouncement", "deleteAnnouncement"}
       /\ mreq'[r].res \in {403, 404})
      => emitted' = {}

\* C15 (as stated): 'announcement-updated' goes by the audience the stored
\* announcement has after the update, 'announcement-deleted' by the audience
\* the announcement had in the store when it was deleted; a request answered
\* 403 or 404 emits nothing.
C15_EditEventByStoredAudience ==
  [][/\ \A r \in ReqIds :
          /\ (mreq[r].pc = "emitUpdated" /\ MsgAnswered(r)) =>
               EditEventReaches(r, "announcement-updated",
                                FindAnnouncement(mreq[r].announcementId))
          /\ (mreq[r].pc = "emitDeleted" /\ MsgAnswered(r)) =>
               EditEventReaches(r, "announcement-deleted", mreq[r].announcement)
          /\ (mreq[r].pc = "deleteAnnouncement" /\ mreq'[r].pc = "emitDeleted"
                /\ AnnouncementFound(mreq[r].announcementId)) =>
               LET a == FindAnnouncement(mreq[r].announcementId) IN
               a.type = mreq[r].announcement.type /\ a.role = mreq[r].announcement.role
     /\ RejectedEditEmitsNothing]_vars

\* C15 (amended): 'announcement-updated' and 'announcement-deleted' go by the
\* audience of the handler's own document: the announcement as the request
\* loaded it, with the request's targetAudience applied for an update; a
\* request answered 403 or 404 emits nothing.
C15_EditEventByHandlerAudience ==
  [][/\ \A r \in ReqIds :
          /\ (mreq[r].pc = "emitUpdated" /\ MsgAnswered(r)) =>
               EditEventReaches(r, "announcement-updated", mreq[r].announcement)
          /\ (mreq[r].pc = "emitDeleted" /\ MsgAnswered(r)) =>
               EditEventReaches(r, "announcement-deleted", mreq[r].announcement)
     /\ RejectedEditEmitsNothing]_vars

\* An update that set the audience to a role has just emitted
\* 'announcement-updated' to a socket of the role's room and not to another
\* connected socket.
C15_UpdatedToRoleRoomOnly ==
  \E r \in ReqIds :
    /\ mreq[r].kind = "updateAnnouncement" /\ mreq[r].pc = "done" /\ mreq[r].res = 200
    /\ mreq[r].modified /\ mreq[r].announcement.type = "role"
    /\ Received("announcement-updated", mreq[r].announcementId) # {}
    /\ OpenConns \ Received("announcement-updated", mreq[r].announcementId) # {}

UserAnswered(r) ==
  ureq'[r].pc = "done" /\ ureq'[r].kind # "idle" /\ ureq'[r] # ureq[r]

\* C16: a login that carries the email and the password of a payload that
\* POST /auth/register answered 201 is answered 200, and the role of its token
\* is the role of that payload.
C16_LoginAfterRegister ==
  [][\A r \in ReqIds :
       UserAnswered(r) /\ ureq'[r].kind = "login" =>
         \A g \in registered :
           g.email = ureq'[r].email /\ g.password = ureq'[r].password =>
             ureq'[r].res = 200 /\ ureq'[r].token.role = g.role]_vars

\* A user registered with a mixed-case email has logged in with it.
C16_MixedCaseLoggedIn ==
  \E r \in ReqIds :
    /\ ureq[r].kind = "login"
    /\ ureq[r].res = 200
    /\ ureq[r].email = "A@x.io"
    /\ ureq[r].token.role = "teacher"
    /\ [email |-> "A@x.io", password |-> ureq[r].password, role |-> "teacher"]
         \in registered

\* Slot r holds a PUT /enrollments/:id of the enrolled student with a status
\* other than 'dropped', about to read the class and run the checks.
StudentNonDropAtCheck(r) ==
  /\ creq[r].kind = "updateEnrollment"
  /\ creq[r].pc = "findClass"
  /\ creq[r].user = creq[r].enrollment.studentId
  /\ creq[r].bodyStatus # "dropped"

\* C17 as stated: a PUT /enrollments/:id of the enrolled student with a status
\* other than 'dropped' is answered 403 and its step leaves the Enrollments and
\* the Classes unchanged.
C17_StudentNonDropIs403 ==
  [][\A r \in ReqIds :
       StudentNonDropAtCheck(r) /\ creq'[r] # creq[r] =>
         /\ creq'[r].pc = "done" /\ creq'[r].res = 403
         /\ enrollments' = enrollments /\ classes' = classes]_vars

\* C17: a PUT /enrollments/:id of the enrolled student with a status other
\* than 'dropped' is answered 403, or 404 when the class is no longer stored,
\* and leaves the Enrollments and the Classes unchanged; a status is written to
\* an Enrollment only by a request that passed the checks, with the status of
\* its body, which is 'dropped' when the request is the enrolled student's.
C17_StudentNonDropRejected ==
  [][/\ \A r \in ReqIds :
          StudentNonDropAtCheck(r) /\ creq'[r] # creq[r] =>
            /\ creq'[r].pc = "done"
            /\ creq'[r].res = (IF ClassFound(creq[r].classId) THEN 403 ELSE 404)
            /\ enrollments' = enrollments /\ classes' = classes
     /\ \A e \in enrollments, f \in enrollments' :
          e.id = f.id /\ e.status # f.status =>
            \E r \in ReqIds :
              /\ creq[r].kind = "updateEnrollment" /\ creq[r].pc = "save"
              /\ creq[r].enrollmentId = e.id
              /\ f.status = creq[r].bodyStatus
              /\ (creq[r].user = e.studentId => f.status = "dropped")]_vars

\* Student s1's request to complete their own enrollment was answered 403 and
\* the enrollment is still active.
C17_CompleteByStudentRejected ==
  \E r \in ReqIds :
    /\ creq[r].kind = "updateEnrollment" /\ creq[r].pc = "done"
    /\ creq[r].res = 403 /\ creq[r].msg = "Students can only drop classes"
    /\ creq[r].user = "s1" /\ creq[r].bodyStatus = "completed"
    /\ \E e \in enrollments :
         e.id = creq[r].enrollmentId /\ e.studentId = "s1" /\ e.status = "active"

\* Slot r takes a new request in this step.
Arrived(r) == creq[r].pc = "done" /\ creq'[r].kind # "idle" /\ creq'[r] # creq[r]

\* Request q is a PUT or DELETE of class c by an admin, or a PUT by the
\* class's teacher, that has passed its checks.
ChangesClass(q, c) ==
  /\ creq[q].pc # "done"
  /\ creq[q].classId = c.id
  /\ \/ creq[q].kind = "updateClass"
        /\ (Role(creq[q].user) = "admin" \/ creq[q].user = c.teacherId)
     \/ creq[q].kind = "deleteClass" /\ Role(creq[q].user) = "admin"

C19_StatusOnlyLeavesActive ==
  [][\A e \in enrollments, f \in enrollments' :
       e.id = f.id /\ e.status # f.status =>
         e.status = "active" /\ f.status \in {"dropped", "completed"}]_vars

\* C20: when the handler of POST /enrollments has stored its Enrollment and its
\* counter write is answered 500, the step leaves the Enrollment stored and
\* every Class as it was, and the handler is finished; no step of the
\* enrollment handlers removes an Enrollment.
C20_FailedCountKeepsEnrollment ==
  [][/\ \A r \in ReqIds :
          /\ creq[r].kind = "enroll" /\ creq[r].pc = "saveCount"
          /\ creq'[r].res = 500
          => /\ creq'[r].pc = "done"
             /\ \E e \in enrollments' :
                  /\ e.id = creq[r].enrollmentId
                  /\ e.studentId = creq[r].user /\ e.status = "active"
             /\ classes' = classes
     /\ \A e \in enrollments : \E f \in enrollments' : f.id = e.id]_vars

\* s1's POST /enrollments has been answered 500 after its Enrollment was
\* stored: the Enrollment is active and the stored class still has
\* enrollmentCount 0.
C20_EnrollmentWithoutCount ==
  \E r \in ReqIds :
    /\ creq[r].kind = "enroll" /\ creq[r].res = 500 /\ creq[r].user = "s1"
    /\ \E e \in enrollments :
         e.id = creq[r].enrollmentId /\ e.studentId = "s1" /\ e.status = "active"
    /\ \E c \in classes : c.id = creq[r].classId /\ c.enrollmentCount = 0

\* The body of the request answered in slot r violates the shape constraints
\* of its resource: a capacity below 1 for a Class, a status outside the enum
\* for an Enrollment.
BodyViolatesShape(r) ==
  \/ creq'[r].kind = "updateClass" /\ creq'[r].bodyCapacity < 1
  \/ creq'[r].kind = "updateEnrollment" /\ creq'[r].bodyStatus \notin EnrollmentStatuses

\* C21: an update request of the class service whose body violates the shape
\* constraints, and that is not turned away with 403 or 404, is answered 400
\* and its step writes no document.
C21_BadShapeIs400 ==
  [][\A r \in ReqIds :
       Answered(r) /\ BodyViolatesShape(r) /\ creq'[r].res \notin {403, 404} =>
         /\ creq'[r].res = 400
         /\ classes' = classes /\ enrollments' = enrollments]_vars

\* C22: every request of the store slices finds a proxy in the gateway, and
\* the path the proxy forwards matches a route of the target service: no such
\* request is answered 404 by the gateway or by the service's router.
C22_FrontendPathsRouted ==
  greq.stage = "answered" => greq.res # 404

\* C23: after logout.fulfilled the auth state has token null, isAuthenticated
\* false, loading false, user null, error null; after login.rejected and
\* loadUser.rejected the same with error the payload; login.fulfilled and
\* loadUser.fulfilled give isAuthenticated true, loading false, user the
\* payload, error null and leave token as it was; the initial state has
\* isAuthenticated false, loading true, user null.
C23_AuthReducerCases ==
  [][/\ authAction'.type = "auth/logout/fulfilled" =>
          auth' = [token |-> Null, isAuthenticated |-> FALSE, loading |-> FALSE,
                   user |-> Null, error |-> Null]
     /\ authAction'.type \in {"auth/login/rejected", "auth/loadUser/rejected"} =>
          auth' = [token |-> Null, isAuthenticated |-> FALSE, loading |-> FALSE,
                   user |-> Null, error |-> authAction'.payload]
     /\ authAction'.type \in {"auth/login/fulfilled", "auth/loadUser/fulfilled"} =>
          auth' = [token |-> auth.token, isAuthenticated |-> TRUE, loading |-> FALSE,
                   user |-> authAction'.payload, error |-> Null]
     /\ authAction = NoAuthAction =>
          ~auth.isAuthenticated /\ auth.loading /\ auth.user = Null]_vars

\* A login was rejected in a session that had a token and a loaded user.
C23_RejectedAfterLogin ==
  /\ authAction.type = "auth/login/rejected"
  /\ auth = [token |-> Null, isAuthenticated |-> FALSE, loading |-> FALSE,
             user |-> Null, error |-> "Login failed"]

\* C24: an admin's POST /classes whose body passes validation is answered 201
\* and stores a new Class; a teacher's stores a Class with the teacher's own
\* id as teacherId.
C24_AdminCreatesClass ==
  [][\A r \in ReqIds :
       /\ Answered(r) /\ creq'[r].kind = "createClass"
       /\ Role(creq'[r].user) \in {"admin", "teacher"}
       /\ creq'[r].res # 400
       => /\ creq'[r].res = 201
          /\ \E c \in classes' \ classes :
               /\ c.id = creq'[r].classId
               /\ (Role(creq'[r].user) = "teacher" => c.teacherId = creq'[r].user)]_vars

\* C25: GET /announcements lists only announcements whose validity window
\* contains the request time (startDate <= now, and endDate absent or
\* endDate >= now) and whose audience is all or the requester's role.
C25_ListedInsideWindow ==
  \A a \in windowed :
    a.id \in listing.ids =>
      /\ a.startDate <= listing.at
      /\ (a.endDate = NoDate \/ a.endDate >= listing.at)
      /\ (a.type = "all" \/ (a.type = "role" /\ a.role = Role(listing.user)))

\* C26: an open connection is in room user:U only if its bound user id is U,
\* and in room role:R only if the role of its bound user is R.
C26_RoomsFollowBinding ==
  \A c \in ConnIds :
    conns[c].open =>
      /\ \A u \in UserIds : UserRoom(u) \in conns[c].rooms => conns[c].userId = u
      /\ \A u \in UserIds :
           RoleRoom(Role(u)) \in conns[c].rooms => Role(conns[c].userId) = Role(u)

\* C27: for every stored ContentItem, version equals 1 plus the number of
\* entries of previousVersions.
C27_VersionCountsHistory ==
  \A it \in items : it.version = 1 + Len(it.previousVersions)

\* C28: the announcements list of the communication state never holds two
\* entries with the same _id.
C28_NoDuplicateAnnouncement ==
  \A i, j \in 1..Len(stateAnnouncements) :
    stateAnnouncements[i].id = stateAnnouncements[j].id => i = j

\* C29: while every addNotification brought an unread notification whose
\* _id was not yet in the list, unreadNotificationsCount is the number of
\* notifications with read = false, and it is not negative.
C29_CountIsUnread ==
  freshAdds =>
    /\ unreadNotificationsCount = UnreadLength(stateNotifications)
    /\ unreadNotificationsCount >= 0

\* After deleteNotification.fulfilled, with fresh unread additions only, the
\* list holds one unread and one read notification and the counter is one.
C29_UnreadDeleted ==
  /\ freshAdds
  /\ noticeAction = "communication/deleteNotification/fulfilled"
  /\ Len(stateNotifications) = 2
  /\ unreadNotificationsCount = 1

====
